---- MODULE Spec2Model ----
(***************************************************************************)
(* Phorge: navigation tree, lazy site loading, detail panel and the main   *)
(* screen that wires them together; the Forge client, the .env parser,     *)
(* the config file and the workers of the database and environment panels. *)
(*                                                                         *)
(* Encoding.  Python None is NoneInt in integer fields, None in fields     *)
(* held as one TLA+ string (ip addresses) and NoneStr in fields held as a  *)
(* sequence of string pieces; a tree node without data carries NoData.     *)
(* Strings the code slices (directories, site names) are sequences of      *)
(* one-character pieces; fixed labels are a single piece.  An exception    *)
(* raised by a synchronous routine is the "raised" field of its result.    *)
(***************************************************************************)
EXTENDS Integers, Sequences, FiniteSets, TLC

\* ------------------------------------------------------------------ bounds
MaxLoads == 3
MaxSitesLoads == 2
MaxPanels == 2
MaxPopulate == 2
MaxSelectChild == 3
MaxServers == 2
MaxClients == 2
MaxEnvLen == 5
MaxConfigStr == 1
MaxDbWorkers == 2
MaxEnvWorkers == 3
MaxDirLen == 3

\* ------------------------------------------------------- encoding of None
None == "None"
NoneStr == << "None" >>
NoneInt == 0 - 1
NoData == [node_type |-> "None"]

\* ------------------------------------------------------------ server_tree
GroupTypes == {"SERVER_ROOT", "SITE_ROOT", "SITES_GROUP"}

SiteSubLabels ==
  << "Site Info", "Deployments", "Deployment Script", "Logs",
     "Environment File", "Workers", "Backups", "Domains", "Databases",
     "SSL Certificates", "Commands", "Git Repository" >>

SiteSubItems ==
  << "SITE_INFO", "DEPLOYMENTS", "DEPLOYMENT_SCRIPT", "LOGS", "ENVIRONMENT",
     "WORKERS", "BACKUPS", "DOMAINS", "DATABASES_SITE", "SSL_CERTIFICATES",
     "COMMANDS", "GIT_REPOSITORY" >>

ServerLeafItems ==
  << "SSH_KEYS", "DAEMONS", "FIREWALL_RULES", "SCHEDULED_JOBS",
     "DATABASES_SERVER", "DATABASE_USERS" >>

ServerLeafLabel(t) ==
  CASE t = "SSH_KEYS" -> << "SSH Keys" >>
    [] t = "DAEMONS" -> << "Daemons" >>
    [] t = "FIREWALL_RULES" -> << "Firewall Rules" >>
    [] t = "SCHEDULED_JOBS" -> << "Scheduled Jobs" >>
    [] t = "DATABASES_SERVER" -> << "Databases" >>
    [] t = "DATABASE_USERS" -> << "Database Users" >>

NodeTypes ==
  { "SERVER_ROOT", "SERVER_INFO", "SITES_GROUP", "SITE_ROOT" }
    \cup { SiteSubItems[i] : i \in 1..Len(SiteSubItems) }
    \cup { ServerLeafItems[i] : i \in 1..Len(ServerLeafItems) }

\* NodeData(node_type, server_id, ...) with the dataclass defaults.
NodeData(node_type, server_id) ==
  [ node_type |-> node_type, server_id |-> server_id, site_id |-> NoneInt,
    label |-> << >>, server_ip |-> None, ssh_port |-> 22,
    site_name |-> NoneStr, site_directory |-> NoneStr, loaded |-> FALSE ]

\* A tree node: its data, its children in order, and whether it is expanded
\* (nodes are added collapsed).
TreeNode(data) == [ data |-> data, children |-> << >>, expanded |-> FALSE ]

\* TreeNode.expand
expand(node) == [ node EXCEPT !.expanded = TRUE ]

add(node, child) == [ node EXCEPT !.children = Append(@, child) ]

\* ------------------------------------------------------------- api.models
\* Server(**payload): the fields of the model the tree reads.
Server(id, name, ip_address, ssh_port) ==
  [ id |-> id, name |-> name, ip_address |-> ip_address, ssh_port |-> ssh_port ]

\* Site(**payload): pydantic keeps the declared fields (with their defaults)
\* and, with extra="ignore", drops every other key of the payload.
SiteFields == { "id", "server_id", "name", "directory" }

SiteDefault(f) == IF f = "server_id" THEN NoneInt ELSE NoneStr

Site(payload) ==
  [ f \in SiteFields |->
      IF f \in DOMAIN payload THEN payload[f] ELSE SiteDefault(f) ]

\* --------------------------------------------------------- string helpers
\* str.rstrip("/")
RECURSIVE rstrip(_)
rstrip(s) ==
  IF Len(s) > 0 /\ s[Len(s)] = "/" THEN rstrip(SubSeq(s, 1, Len(s) - 1)) ELSE s

\* str.endswith(suffix)
endswith(s, suffix) ==
  /\ Len(suffix) <= Len(s)
  /\ SubSeq(s, Len(s) - Len(suffix) + 1, Len(s)) = suffix

\* s[: -n]; Python's s[:-0] is s[:0], the empty string.
DropLast(s, n) == IF n = 0 THEN << >> ELSE SubSeq(s, 1, Len(s) - n)

\* bool(x) of an optional string
Truthy(s) == s # NoneStr /\ s # << >>

HomeForge == << "/", "h", "o", "m", "e", "/", "f", "o", "r", "g", "e", "/" >>

\* ServerTree._derive_site_directory: reads site.web_directory first; a
\* model instance without that attribute raises AttributeError.
_derive_site_directory(site) ==
  IF "web_directory" \notin DOMAIN site
    THEN [ raised |-> TRUE, value |-> NoneStr ]
    ELSE IF /\ Truthy(site.web_directory)
            /\ Truthy(site.directory)
            /\ endswith(site.web_directory, rstrip(site.directory))
           THEN [ raised |-> FALSE,
                  value |-> rstrip(DropLast(site.web_directory,
                                            Len(rstrip(site.directory)))) ]
           ELSE [ raised |-> FALSE, value |-> HomeForge \o site.name ]

\* ServerTree._add_site_node, after the directory has been derived.
SiteNode(parent_data, site, site_dir) ==
  LET server_ip == IF parent_data # NoData THEN parent_data.server_ip ELSE None
      ssh_port == IF parent_data # NoData THEN parent_data.ssh_port ELSE 22
      data(t, label) ==
        [ NodeData(t, site.server_id) EXCEPT
            !.site_id = site.id, !.label = label, !.server_ip = server_ip,
            !.ssh_port = ssh_port, !.site_name = site.name,
            !.site_directory = site_dir ]
  IN [ data |-> data("SITE_ROOT", site.name),
       children |-> [ i \in 1..Len(SiteSubItems) |->
                        TreeNode(data(SiteSubItems[i], << SiteSubLabels[i] >>)) ],
       expanded |-> FALSE ]

\* ServerTree._add_site_node
_add_site_node(sites_node, site) ==
  LET dir == _derive_site_directory(site)
  IN IF dir.raised
       THEN [ raised |-> TRUE, node |-> sites_node ]
       ELSE [ raised |-> FALSE,
              node |-> add(sites_node, SiteNode(sites_node.data, site, dir.value)) ]

\* ServerTree.add_sites_to_node: the loop stops at the first site whose node
\* cannot be built; loaded is set only after the loop.
RECURSIVE AddSitesFrom(_, _, _)
AddSitesFrom(sites_node, sites, i) ==
  IF i > Len(sites)
    THEN [ raised |-> FALSE, node |-> sites_node ]
    ELSE LET r == _add_site_node(sites_node, sites[i])
         IN IF r.raised THEN r ELSE AddSitesFrom(r.node, sites, i + 1)

add_sites_to_node(sites_node, sites) ==
  LET r == AddSitesFrom(sites_node, sites, 1)
  IN IF r.raised
       THEN r
       ELSE [ raised |-> FALSE,
              node |-> IF r.node.data # NoData
                         THEN [ r.node EXCEPT !.data.loaded = TRUE ]
                         ELSE r.node ]

\* Variant: the server's id is also passed as site_id.
ServerDataWithSiteId(t, server, label) ==
  [ NodeData(t, server.id) EXCEPT
      !.site_id = server.id, !.label = label,
      !.server_ip = server.ip_address, !.ssh_port = server.ssh_port ]

\* The NodeData of a server node, of Server Info and of the Sites group.
ServerData(t, server, label) ==
  [ NodeData(t, server.id) EXCEPT
      !.label = label, !.server_ip = server.ip_address,
      !.ssh_port = server.ssh_port ]

ServerLeaves(server) ==
  [ i \in 1..Len(ServerLeafItems) |->
      TreeNode([ NodeData(ServerLeafItems[i], server.id) EXCEPT
                   !.label = ServerLeafLabel(ServerLeafItems[i]) ]) ]

\* Tree.clear: a fresh root that keeps the old root's data and expansion,
\* no children.
clear(root) == [ TreeNode(root.data) EXCEPT !.expanded = root.expanded ]

\* ServerTree.populate_server: clear, set the root data, add Server Info and
\* the Sites group (loaded), add the sites, then the six server leaves, and
\* expand the root and the Sites group.  An exception from
\* add_sites_to_node leaves what was built so far.
populate_server(root, server, sites) ==
  LET r0 == [ clear(root) EXCEPT
                !.data = ServerData("SERVER_ROOT", server, << server.name >>) ]
      r1 == add(r0, TreeNode(ServerData("SERVER_INFO", server, << server.name >>)))
      sn == TreeNode([ ServerData("SITES_GROUP", server, << "Sites" >>) EXCEPT
                         !.loaded = TRUE ])
      r2 == add(r1, sn)
      s == add_sites_to_node(sn, sites)
  IN IF s.raised
       THEN [ raised |-> TRUE, root |-> [ r2 EXCEPT !.children[2] = s.node ] ]
       ELSE [ raised |-> FALSE,
              root |-> expand([ r2 EXCEPT !.children =
                                  << r2.children[1], expand(s.node) >>
                                    \o ServerLeaves(server) ]) ]

\* Variant: the Sites group is added after the server leaves.
ServerNodeSitesLast(server) ==
  [ data |-> ServerData("SERVER_ROOT", server, << server.name >>),
    children |->
      << TreeNode(ServerData("SERVER_INFO", server, << server.name >>)) >>
        \o ServerLeaves(server)
        \o << TreeNode(ServerData("SITES_GROUP", server, << "Sites" >>)) >>,
    expanded |-> FALSE ]

\* ServerTree._add_server_node
ServerNode(server) ==
  [ data |-> ServerData("SERVER_ROOT", server, << server.name >>),
    children |->
      << TreeNode(ServerData("SERVER_INFO", server, << server.name >>)),
         TreeNode(ServerData("SITES_GROUP", server, << "Sites" >>)) >>
        \o ServerLeaves(server),
    expanded |-> FALSE ]

\* ServerTree.populate_servers
populate_servers(root, servers) ==
  expand([ clear(root) EXCEPT
             !.children = [ i \in 1..Len(servers) |-> ServerNode(servers[i]) ] ])


\* ---------------------------------------------------------- detail_panel
\* _get_panel_class: the registry, None for a node type it does not hold.
Registry ==
  [ t \in NodeTypes \ GroupTypes |->
      CASE t = "SERVER_INFO" -> "ServerInfoPanel"
        [] t = "SITE_INFO" -> "SiteInfoPanel"
        [] t = "DEPLOYMENTS" -> "DeploymentsPanel"
        [] t = "DEPLOYMENT_SCRIPT" -> "DeploymentScriptPanel"
        [] t = "LOGS" -> "LogsPanel"
        [] t = "ENVIRONMENT" -> "EnvironmentPanel"
        [] t = "WORKERS" -> "WorkersPanel"
        [] t = "BACKUPS" -> "BackupsPanel"
        [] t = "DOMAINS" -> "DomainsPanel"
        [] t = "DATABASES_SERVER" -> "DatabasesPanel"
        [] t = "DATABASES_SITE" -> "DatabasesPanel"
        [] t = "DATABASE_USERS" -> "DatabaseUsersPanel"
        [] t = "SSL_CERTIFICATES" -> "SSLPanel"
        [] t = "COMMANDS" -> "CommandsPanel"
        [] t = "GIT_REPOSITORY" -> "GitPanel"
        [] t = "SSH_KEYS" -> "SSHKeysPanel"
        [] t = "DAEMONS" -> "DaemonsPanel"
        [] t = "FIREWALL_RULES" -> "FirewallPanel"
        [] t = "SCHEDULED_JOBS" -> "ScheduledJobsPanel" ]

\* Variant: the registry has no entry for LOGS.
_get_panel_classWithoutLogs(node_type) ==
  IF node_type \in DOMAIN Registry \ { "LOGS" } THEN Registry[node_type] ELSE None

_get_panel_class(node_type) ==
  IF node_type \in DOMAIN Registry THEN Registry[node_type] ELSE None

\* ------------------------------------------------------------ environment
\* The servers the picker can return and the site payloads the Forge API
\* can answer with (the API sends web_directory; see Site).
Servers ==
  { Server(1, "web-1", "10.0.0.1", 22), Server(2, "web-2", None, 2222) }

SitePayload(id, server_id, name) ==
  [ id |-> id, server_id |-> server_id, name |-> name,
    directory |-> << "/", "p" >>,
    web_directory |-> << "/", "w", "/", "p" >> ]

SiteLists(server_id) ==
  { << >>, << Site(SitePayload(10, server_id, << "a" >>)) >> }

\* What awaiting a Resource Client call can give: a value, a ForgeAPIError
\* (or subclass), or any other exception.
ApiError == "ForgeAPIError"
OtherError == "Exception"

\* -------------------------------------------------------- utils.env_parser
\* The characters of an .env text: a letter, the separator, the comment
\* sign, a blank, the two quotes and the line break.
EnvChars == { "a", "=", "#", " ", "\"", "'", "\n" }

\* The index of the first c in s, 0 when there is none.
RECURSIVE find(_, _)
find(s, c) ==
  IF s = << >> THEN 0
  ELSE IF Head(s) = c THEN 1
  ELSE LET n == find(Tail(s), c) IN IF n = 0 THEN 0 ELSE n + 1

\* str.splitlines
RECURSIVE splitlines(_)
splitlines(s) ==
  IF s = << >> THEN << >>
  ELSE LET n == find(s, "\n")
       IN IF n = 0 THEN << s >>
          ELSE << SubSeq(s, 1, n - 1) >> \o splitlines(SubSeq(s, n + 1, Len(s)))

\* str.strip
RECURSIVE strip(_)
strip(s) ==
  IF s = << >> THEN s
  ELSE IF Head(s) = " " THEN strip(Tail(s))
  ELSE IF s[Len(s)] = " " THEN strip(SubSeq(s, 1, Len(s) - 1))
  ELSE s

\* Variant: the two quotes need not be the same character.
StripQuotesMismatched(value) ==
  IF /\ Len(value) >= 2
     /\ value[1] \in { "\"", "'" }
     /\ value[Len(value)] \in { "\"", "'" }
    THEN SubSeq(value, 2, Len(value) - 1)
    ELSE value

\* parse_env: strip surrounding quotes.
StripQuotes(value) ==
  IF /\ Len(value) >= 2
     /\ value[1] = value[Len(value)]
     /\ value[1] \in { "\"", "'" }
    THEN SubSeq(value, 2, Len(value) - 1)
    ELSE value

\* result[key] = value
SetItem(result, key, value) ==
  [ k \in DOMAIN result \cup { key } |->
      IF k = key THEN value ELSE result[k] ]

\* parse_env, the body of the loop for one line.
ParseLine(result, raw) ==
  LET line == strip(raw)
      n == find(line, "=")
  IN IF line = << >> \/ Head(line) = "#" THEN result
     ELSE IF n = 0 THEN result
     ELSE SetItem(result,
                  strip(SubSeq(line, 1, n - 1)),
                  StripQuotes(strip(SubSeq(line, n + 1, Len(line)))))

RECURSIVE ParseLines(_, _, _)
ParseLines(result, lines, i) ==
  IF i > Len(lines) THEN result
  ELSE ParseLines(ParseLine(result, lines[i]), lines, i + 1)

\* parse_env
parse_env(content) ==
  ParseLines([ k \in { } |-> << >> ], splitlines(content), 1)

NoEnvCall == [ content |-> << >> ]

\* ----------------------------------------------------------------- config
\* PhorgeConfig with its three sections.
PhorgeConfig(api_key, command, auto_expand_sites, theme, vim_keys) ==
  [ forge |-> [ api_key |-> api_key ],
    editor |-> [ command |-> command ],
    ui |-> [ auto_expand_sites |-> auto_expand_sites, theme |-> theme,
             vim_keys |-> vim_keys ] ]

Code == << "c", "o", "d", "e" >>
Dark == << "d", "a", "r", "k" >>

\* PhorgeConfig(): the defaults of the dataclasses.
DefaultConfig == PhorgeConfig(<< >>, Code, TRUE, Dark, FALSE)

\* tomli_w: a bool is written as true or false.
FormatBool(b) ==
  IF b THEN << "t", "r", "u", "e" >> ELSE << "f", "a", "l", "s", "e" >>

\* tomli_w: inside a basic string the quote and the backslash are escaped.
RECURSIVE EscapeChars(_)
EscapeChars(s) ==
  IF s = << >> THEN << >>
  ELSE (IF Head(s) = "\"" THEN << "\\", "\"" >>
        ELSE IF Head(s) = "\\" THEN << "\\", "\\" >>
        ELSE << Head(s) >>)
         \o EscapeChars(Tail(s))

\* Variant: the string is written between quotes as it is.
FormatStringRaw(s) == << "\"" >> \o s \o << "\"" >>

\* tomli_w: a string is written as a basic string.
FormatString(s) == << "\"" >> \o EscapeChars(s) \o << "\"" >>

\* tomli_w.dump(data) for the data save_config builds: a table header per
\* section, then its keys with their values as TOML literals.
dump(config) ==
  << [ table |-> "forge" ],
     [ key |-> "api_key", literal |-> FormatString(config.forge.api_key) ],
     [ table |-> "editor" ],
     [ key |-> "command", literal |-> FormatString(config.editor.command) ],
     [ table |-> "ui" ],
     [ key |-> "auto_expand_sites",
       literal |-> FormatBool(config.ui.auto_expand_sites) ],
     [ key |-> "theme", literal |-> FormatString(config.ui.theme) ],
     [ key |-> "vim_keys", literal |-> FormatBool(config.ui.vim_keys) ] >>

\* tomllib: a basic string after its opening quote, up to the closing
\* quote, which must end the value; a backslash escapes the next character.
RECURSIVE ParseBasicString(_, _)
ParseBasicString(rest, acc) ==
  IF rest = << >> THEN [ ok |-> FALSE ]
  ELSE IF Head(rest) = "\""
    THEN IF Tail(rest) = << >> THEN [ ok |-> TRUE, value |-> acc ]
         ELSE [ ok |-> FALSE ]
  ELSE IF Head(rest) = "\\"
    THEN IF Len(rest) >= 2 /\ rest[2] \in { "\"", "\\" }
           THEN ParseBasicString(SubSeq(rest, 3, Len(rest)),
                                 Append(acc, rest[2]))
           ELSE [ ok |-> FALSE ]
  ELSE ParseBasicString(Tail(rest), Append(acc, Head(rest)))

\* tomllib: the value of a literal.
ParseValue(literal) ==
  IF literal = << "t", "r", "u", "e" >> THEN [ ok |-> TRUE, value |-> TRUE ]
  ELSE IF literal = << "f", "a", "l", "s", "e" >>
    THEN [ ok |-> TRUE, value |-> FALSE ]
  ELSE IF literal # << >> /\ Head(literal) = "\""
    THEN ParseBasicString(Tail(literal), << >>)
  ELSE [ ok |-> FALSE ]

EmptyDict == [ k \in { } |-> << >> ]

\* dict.get(key, default)
Get(dict, key, default) == IF key \in DOMAIN dict THEN dict[key] ELSE default

\* tomllib.load: the tables of the document and their keys; anything that
\* is not a table header or a key with a value is a TOMLDecodeError.
RECURSIVE LoadLines(_, _, _, _)
LoadLines(lines, i, table, data) ==
  IF i > Len(lines) THEN [ ok |-> TRUE, data |-> data ]
  ELSE LET line == lines[i]
       IN IF "table" \in DOMAIN line
            THEN LoadLines(lines, i + 1, line.table,
                           [ t \in DOMAIN data \cup { line.table } |->
                               Get(data, t, EmptyDict) ])
          ELSE IF "key" \in DOMAIN line /\ ParseValue(line.literal).ok
            THEN LoadLines(lines, i + 1, table,
                   [ t \in DOMAIN data \cup { table } |->
                       IF t = table
                         THEN [ k \in DOMAIN Get(data, t, EmptyDict)
                                        \cup { line.key } |->
                                  IF k = line.key
                                    THEN ParseValue(line.literal).value
                                    ELSE data[t][k] ]
                         ELSE data[t] ])
          ELSE [ ok |-> FALSE ]

NoFile == [ exists |-> FALSE ]
NoConfig == [ forge |-> None ]
NoLoad == [ file |-> NoFile ]

\* load_config
load_config(file) ==
  IF ~file.exists THEN DefaultConfig
  ELSE LET r == LoadLines(file.lines, 1, "", EmptyDict)
       IN IF ~r.ok THEN DefaultConfig
          ELSE LET forge_data == Get(r.data, "forge", EmptyDict)
                   editor_data == Get(r.data, "editor", EmptyDict)
                   ui_data == Get(r.data, "ui", EmptyDict)
               IN PhorgeConfig(Get(forge_data, "api_key", << >>),
                               Get(editor_data, "command", Code),
                               Get(ui_data, "auto_expand_sites", TRUE),
                               Get(ui_data, "theme", Dark),
                               Get(ui_data, "vim_keys", FALSE))

\* save_config: the file it leaves at CONFIG_PATH.
save_config(config) == [ exists |-> TRUE, lines |-> dump(config) ]

\* ------------------------------------------------------------- api.client
\* The responses the server can send: a status, the body text, and what
\* response.json() gives (it raises when the body is not JSON).
Statuses == { 100, 200, 204, 299, 301, 400, 401, 403, 404, 422, 429, 500, 503 }

JsonBodies ==
  { [ kind |-> "invalid" ],
    [ kind |-> "list" ],
    [ kind |-> "dict", message |-> None ],
    [ kind |-> "dict", message |-> "Server error" ] }

Responses ==
  { [ status_code |-> s, text |-> "body text", json |-> j ] :
      s \in Statuses, j \in JsonBodies }

\* httpx.Response.is_success
is_success(response) ==
  200 <= response.status_code /\ response.status_code < 300

NoError == [ raised |-> "none" ]

\* The message of the generic error: error_body.get("message", text); a
\* body that is not JSON, or not a dict, ends in the except clause.
GenericMessage(response) ==
  IF response.json.kind = "dict" /\ response.json.message # None
    THEN response.json.message
    ELSE response.text

\* Variant: 429 is not told apart from the other statuses.
_handle_errorsWithout429(response) ==
  CASE is_success(response) -> NoError
    [] response.status_code = 401 ->
         [ raised |-> "ForgeAuthenticationError",
           message |-> << "Invalid API key" >> ]
    [] response.status_code = 404 ->
         [ raised |-> "ForgeNotFoundError",
           message |-> << "Resource not found: ", "url" >> ]
    [] response.status_code = 422 ->
         [ raised |-> "ForgeValidationError",
           details |-> IF response.json.kind = "invalid"
                         THEN [ kind |-> "dict", error |-> response.text ]
                         ELSE response.json ]
    [] OTHER ->
         [ raised |-> "ForgeAPIError",
           message |-> << "API error ", ToString(response.status_code), ": ",
                          GenericMessage(response) >> ]

\* ForgeClient._handle_errors: what it raises, NoError when it returns.
_handle_errors(response) ==
  CASE is_success(response) -> NoError
    [] response.status_code = 401 ->
         [ raised |-> "ForgeAuthenticationError",
           message |-> << "Invalid API key" >> ]
    [] response.status_code = 404 ->
         [ raised |-> "ForgeNotFoundError",
           message |-> << "Resource not found: ", "url" >> ]
    [] response.status_code = 422 ->
         [ raised |-> "ForgeValidationError",
           details |-> IF response.json.kind = "invalid"
                         THEN [ kind |-> "dict", error |-> response.text ]
                         ELSE response.json ]
    [] response.status_code = 429 ->
         [ raised |-> "ForgeRateLimitError",
           message |-> << "Rate limit exceeded" >> ]
    [] OTHER ->
         [ raised |-> "ForgeAPIError",
           message |-> << "API error ", ToString(response.status_code), ": ",
                          GenericMessage(response) >> ]

\* ForgeClient.__init__: no httpx client yet.
NoClient == [ id |-> 0 ]
NoClientCall == [ op |-> "none" ]

\* Variant: a closed client is kept.
_get_clientKeepsClosed(client, made) ==
  IF client = NoClient
    THEN [ client |-> [ id |-> made + 1, is_closed |-> FALSE ],
           made |-> made + 1 ]
    ELSE [ client |-> client, made |-> made ]

\* ForgeClient._get_client: a new httpx.AsyncClient (the made+1-th object)
\* when there is none or it is closed.
_get_client(client, made) ==
  IF client = NoClient \/ client.is_closed
    THEN [ client |-> [ id |-> made + 1, is_closed |-> FALSE ],
           made |-> made + 1 ]
    ELSE [ client |-> client, made |-> made ]

\* ----------------------------------------------------------------- panels
\* EnvironmentPanel.__init__ and the .env file the server starts with.
EnvV1 == "v1"
NewEnvPanel ==
  [ _env_content |-> "", _data_loaded |-> FALSE, shown |-> "Loading..." ]

\* ------------------------------------------------------------------ state
VARIABLES
  tree,             \* ServerTree: the root node
  treeGen,          \* number of Tree.clear calls: which tree a node is of
  loading,          \* ServerTree.loading
  _current_server,  \* MainScreen._current_server
  loads,            \* workers of group "server-load", in creation order
  sitesLoads,       \* workers of group "sites", in creation order
  notifications,    \* number of self.notify calls
  escaped,          \* what escaped a worker and ended the app, if anything
  mounted,          \* children of the DetailPanel (0 is the placeholder)
  _current_panel,   \* DetailPanel._current_panel
  panels,           \* the view components created so far
  showPc,           \* where the screen's node-selected handler is
  showArg,          \* node_data of the running (or last) show_panel call
  selected,         \* node data of the last node-selected event
  lastPicked,       \* the server of the last non-None picker result
  populated,        \* number of direct calls of the tree's builders
  staleApplied,     \* a superseded top-level load has called populate_server
  staleChanged,     \* a lazy load of an older tree has changed the tree
  lastCall,         \* the last call of a tree builder and its arguments
  _client,          \* ForgeClient._client
  clientsMade,      \* number of httpx.AsyncClient objects constructed
  acloses,          \* number of aclose calls
  lastClientCall,   \* the last call on the ForgeClient and what it gave
  envCall,          \* the last parse_env call: its content and result
  configFile,       \* the file at CONFIG_PATH
  savedConfig,      \* the config the file was saved from, if nothing else wrote it since
  lastLoad,         \* the last load_config call: the file it read and its result
  dbRemote,         \* the databases of the server
  dbTable,          \* DatabasesPanel: the rows of its table and table.loading
  dbWorkers,        \* DatabasesPanel: its workers (group default), in creation order
  envRemote,        \* the .env file of the site on the server
  envPanel,         \* EnvironmentPanel: _env_content, _data_loaded, the text shown
  envWorkers        \* EnvironmentPanel: its workers (group default), in creation order

treeVars == << tree, treeGen >>
loadVars == << loading, _current_server, loads >>
detailVars == << mounted, _current_panel, panels, showPc, showArg >>
ghostVars ==
  << selected, lastPicked, populated, staleApplied, staleChanged, lastCall >>
\* The state of the tree, the main screen and the detail panel.
screenVars ==
  << tree, treeGen, loading, _current_server, loads, sitesLoads,
     notifications, escaped, mounted, _current_panel, panels, showPc,
     showArg, selected, lastPicked, populated, staleApplied, staleChanged,
     lastCall >>
\* The state of the client, the parsers and the panels' actions.
extVars ==
  << _client, clientsMade, acloses, lastClientCall, envCall, configFile,
     savedConfig, lastLoad, dbRemote, dbTable, dbWorkers, envRemote,
     envPanel, envWorkers >>
clientVars == << _client, clientsMade, acloses, lastClientCall >>
parseVars == << envCall >>
configVars == << configFile, savedConfig, lastLoad >>
dbVars == << dbRemote, dbTable, dbWorkers >>
envVars == << envRemote, envPanel, envWorkers >>
vars == << screenVars, extVars >>

NoServer == [ id |-> NoneInt ]
NoSelection == [ node_type |-> "NoSelection" ]
NoCall == [ op |-> "none" ]
Placeholder == 0

Init ==
  /\ tree = TreeNode(NoData)
  /\ treeGen = 0
  /\ loading = FALSE
  /\ _current_server = NoServer
  /\ loads = << >>
  /\ sitesLoads = << >>
  /\ notifications = 0
  /\ escaped = "none"
  /\ mounted = { Placeholder }
  /\ _current_panel = NoneInt
  /\ panels = << >>
  /\ showPc = "idle"
  /\ showArg = NoData
  /\ selected = NoSelection
  /\ lastPicked = NoneInt
  /\ populated = 0
  /\ staleApplied = FALSE
  /\ staleChanged = FALSE
  /\ lastCall = NoCall
  /\ _client = NoClient
  /\ clientsMade = 0
  /\ acloses = 0
  /\ lastClientCall = NoClientCall
  /\ envCall = NoEnvCall
  /\ configFile = NoFile
  /\ savedConfig = NoConfig
  /\ lastLoad = NoLoad
  /\ dbRemote = { 1 }
  /\ dbTable = [ rows |-> { }, loading |-> FALSE ]
  /\ dbWorkers = << >>
  /\ envRemote = EnvV1
  /\ envPanel = NewEnvPanel
  /\ envWorkers = << >>

\* The app runs until an exception escapes a worker.
Running == escaped = "none"

\* The screen handles one message at a time: a handler that awaits
\* show_panel holds the screen's message pump until it returns.
PumpIdle == showPc = "idle"

\* ------------------------------------------------------------ tree access
RECURSIVE Paths(_)
Paths(node) ==
  { << >> } \cup
    UNION { { << i >> \o p : p \in Paths(node.children[i]) } :
              i \in 1..Len(node.children) }

RECURSIVE NodeAt(_, _)
NodeAt(node, path) ==
  IF path = << >> THEN node
  ELSE NodeAt(node.children[Head(path)], Tail(path))

RECURSIVE ReplaceAt(_, _, _)
ReplaceAt(node, path, new) ==
  IF path = << >> THEN new
  ELSE [ node EXCEPT !.children[Head(path)] = ReplaceAt(@, Tail(path), new) ]


\* --------------------------------------------------------------- workers
\* run_worker(exclusive=True, group=g): every worker of the group is
\* cancelled.  A worker whose task has not run yet never runs its body; a
\* worker suspended in its await gets CancelledError there.
CancelWorker(w) ==
  CASE w.pc = "created" -> [ w EXCEPT !.pc = "cancelled" ]
    [] w.pc = "awaiting" -> [ w EXCEPT !.pc = "cancel_pending" ]
    [] OTHER -> w

CancelGroup(workers) == [ i \in DOMAIN workers |-> CancelWorker(workers[i]) ]

\* The server whose data the tree shows: populate_server puts it on the root.
DisplayedServer == IF tree.data = NoData THEN NoneInt ELSE tree.data.server_id

\* Calling the @work(exclusive=True, group="server-load") method.
\* (by, displayed and picked record the call for the properties below.)
StartServerLoad(server, by, picked) ==
  Append(CancelGroup(loads),
         [ server |-> server, pc |-> "created", result |-> "none", by |-> by,
           displayed |-> DisplayedServer, picked |-> picked ])

\* Calling the @work(exclusive=True, group="sites") method.  Its body has no
\* effect before its await, so a new worker is already awaiting.
StartSitesLoad(path, server_id) ==
  Append(CancelGroup(sitesLoads),
         [ gen |-> treeGen, path |-> path, server_id |-> server_id,
           pc |-> "awaiting", outcome |-> "none", fetched |-> << >> ])

\* ------------------------------------------------------------ MainScreen
\* Variant: the first selection sticks (_current_server is only set once).
OnServerSelectedKeepsFirst(server) ==
  /\ Running
  /\ IF server # NoServer
       THEN /\ Len(loads) < MaxLoads
            /\ _current_server' =
                 IF _current_server = NoServer THEN server ELSE _current_server
            /\ lastPicked' = server.id
            /\ loads' = StartServerLoad(server, "picker", server.id)
       ELSE UNCHANGED << _current_server, loads, lastPicked >>
  /\ UNCHANGED << treeVars, loading, sitesLoads, notifications, escaped,
                  detailVars, selected, populated, staleApplied,
                  staleChanged, lastCall >>
  /\ UNCHANGED extVars

\* _on_server_selected: the picker's result, a server or None.
OnServerSelected(server) ==
  /\ Running
  /\ IF server # NoServer
       THEN /\ Len(loads) < MaxLoads
            /\ _current_server' = server
            /\ lastPicked' = server.id
            /\ loads' = StartServerLoad(server, "picker", server.id)
       ELSE UNCHANGED << _current_server, loads, lastPicked >>
  /\ UNCHANGED << treeVars, loading, sitesLoads, notifications, escaped,
                  detailVars, selected, populated, staleApplied,
                  staleChanged, lastCall >>
  /\ UNCHANGED extVars

\* action_refresh
ActionRefresh ==
  /\ Running
  /\ IF _current_server # NoServer
       THEN /\ Len(loads) < MaxLoads
            /\ loads' = StartServerLoad(_current_server, "refresh", lastPicked)
       ELSE UNCHANGED loads
  /\ UNCHANGED << treeVars, loading, _current_server, sitesLoads,
                  notifications, escaped, detailVars, ghostVars >>
  /\ UNCHANGED extVars

\* _load_server_with_sites, up to its await: tree.loading = True.
LoadBegin(w) ==
  /\ Running
  /\ loads[w].pc = "created"
  /\ loading' = TRUE
  /\ loads' = [ loads EXCEPT ![w].pc = "awaiting" ]
  /\ UNCHANGED << treeVars, _current_server, sitesLoads, notifications,
                  escaped, detailVars,
                  ghostVars >>
  /\ UNCHANGED extVars

\* _load_server_with_sites: api.list returned; populate_server runs, an
\* exception it raises is notified ("Unexpected error"); finally.
LoadFetched(w, sites) ==
  /\ Running
  /\ loads[w].pc = "awaiting"
  /\ LET r == populate_server(tree, loads[w].server, sites)
     IN /\ tree' = r.root
        /\ treeGen' = treeGen + 1
        /\ notifications' = IF r.raised THEN notifications + 1 ELSE notifications
        /\ loads' = [ loads EXCEPT ![w].pc = "done",
                        ![w].result = IF r.raised THEN "failed" ELSE "ok" ]
  /\ loading' = FALSE
  /\ staleApplied' = (staleApplied \/ w < Len(loads))
  /\ lastCall' = [ op |-> "populate_server", server |-> loads[w].server,
                   sites |-> sites ]
  /\ UNCHANGED << _current_server, sitesLoads, escaped, detailVars,
                  selected, lastPicked, populated, staleChanged >>
  /\ UNCHANGED extVars

\* _load_server_with_sites: api.list raised; both except clauses notify.
LoadFetchRaised(w, err) ==
  /\ Running
  /\ loads[w].pc = "awaiting"
  /\ notifications' = notifications + 1
  /\ loads' = [ loads EXCEPT ![w].pc = "done", ![w].result = "failed" ]
  /\ loading' = FALSE
  /\ UNCHANGED << treeVars, _current_server, sitesLoads, escaped, detailVars,
                  ghostVars >>
  /\ UNCHANGED extVars

\* _load_server_with_sites: CancelledError at the await passes both except
\* clauses (it is not an Exception); finally sets tree.loading = False.
\* The awaited client call unwinds through its own awaits first, so this
\* step may come before or after the first step of the worker that
\* replaced this one.
LoadCancelled(w) ==
  /\ Running
  /\ loads[w].pc = "cancel_pending"
  /\ loads' = [ loads EXCEPT ![w].pc = "cancelled", ![w].result = "cancelled" ]
  /\ loading' = FALSE
  /\ UNCHANGED << treeVars, _current_server, sitesLoads, notifications,
                  escaped, detailVars,
                  ghostVars >>
  /\ UNCHANGED extVars

\* on_tree_node_expanded
StartsSitesLoad(node_data) ==
  /\ node_data # NoData
  /\ node_data.node_type = "SITES_GROUP"
  /\ ~node_data.loaded

\* The nodes that can be expanded: those added with add, not add_leaf.
Expandable(node) ==
  node.data = NoData \/ node.data.node_type \in GroupTypes

\* The user expands a node (after collapsing it, if it was expanded) and
\* the screen handles the NodeExpanded message.
OnTreeNodeExpanded(path) ==
  /\ Running
  /\ PumpIdle
  /\ path \in Paths(tree)
  /\ Expandable(NodeAt(tree, path))
  /\ tree' = ReplaceAt(tree, path, expand(NodeAt(tree, path)))
  /\ LET node_data == NodeAt(tree, path).data
     IN IF StartsSitesLoad(node_data)
          THEN /\ Len(sitesLoads) < MaxSitesLoads
               /\ sitesLoads' = StartSitesLoad(path, node_data.server_id)
          ELSE UNCHANGED sitesLoads
  /\ UNCHANGED << treeGen, loadVars, notifications, escaped, detailVars,
                  ghostVars >>
  /\ UNCHANGED extVars

\* The node object a "sites" worker holds: a node of the tree it was taken
\* from.  Once the tree has been cleared that node is no longer in it.
InTree(w) == w.gen = treeGen

SitesNodeOf(w) ==
  IF InTree(w) THEN NodeAt(tree, w.path)
  ELSE TreeNode(NodeData("SITES_GROUP", w.server_id))

WithSitesNode(w, node) == IF InTree(w) THEN ReplaceAt(tree, w.path, node) ELSE tree

\* _load_sites: api.list returned; add_sites_to_node runs.  Only
\* ForgeAPIError is caught, so an exception from add_sites_to_node escapes.
SitesFetched(w, sites) ==
  /\ Running
  /\ sitesLoads[w].pc = "awaiting"
  /\ LET r == add_sites_to_node(SitesNodeOf(sitesLoads[w]), sites)
     IN /\ tree' = WithSitesNode(sitesLoads[w], r.node)
        /\ escaped' = IF r.raised THEN "build" ELSE escaped
        /\ sitesLoads' = [ sitesLoads EXCEPT
                             ![w].pc = IF r.raised THEN "escaped" ELSE "done",
                             ![w].outcome = "fetched",
                             ![w].fetched = sites ]
  /\ staleChanged' = (staleChanged \/ (~InTree(sitesLoads[w]) /\ tree' # tree))
  /\ lastCall' = [ op |-> "add_sites_to_node", path |-> sitesLoads[w].path,
                   sites |-> sites ]
  /\ UNCHANGED << treeGen, loadVars, notifications, detailVars,
                  selected, lastPicked, populated, staleApplied >>
  /\ UNCHANGED extVars

\* Variant: the ForgeAPIError is swallowed without a notification.
SitesFetchRaisedSilently(w, err) ==
  /\ Running
  /\ sitesLoads[w].pc = "awaiting"
  /\ IF err = ApiError
       THEN /\ sitesLoads' = [ sitesLoads EXCEPT ![w].pc = "done",
                                 ![w].outcome = "api_error" ]
            /\ UNCHANGED escaped
       ELSE /\ escaped' = "client"
            /\ sitesLoads' = [ sitesLoads EXCEPT ![w].pc = "escaped",
                                 ![w].outcome = "error" ]
  /\ UNCHANGED << treeVars, loadVars, notifications, detailVars, ghostVars >>
  /\ UNCHANGED extVars

\* _load_sites: api.list raised.  ForgeAPIError is notified; anything else
\* escapes the worker.
SitesFetchRaised(w, err) ==
  /\ Running
  /\ sitesLoads[w].pc = "awaiting"
  /\ IF err = ApiError
       THEN /\ notifications' = notifications + 1
            /\ sitesLoads' = [ sitesLoads EXCEPT ![w].pc = "done",
                                 ![w].outcome = "api_error" ]
            /\ UNCHANGED escaped
       ELSE /\ escaped' = "client"
            /\ sitesLoads' = [ sitesLoads EXCEPT ![w].pc = "escaped",
                                 ![w].outcome = "error" ]
            /\ UNCHANGED notifications
  /\ UNCHANGED << treeVars, loadVars, detailVars,
                  ghostVars >>
  /\ UNCHANGED extVars

\* ServerTree.populate_servers, called by whoever shows the server list.
PopulateServers(servers) ==
  /\ Running
  /\ populated < MaxPopulate
  /\ populated' = populated + 1
  /\ tree' = populate_servers(tree, servers)
  /\ treeGen' = treeGen + 1
  /\ lastCall' = [ op |-> "populate_servers", servers |-> servers ]
  /\ UNCHANGED << loadVars, sitesLoads, notifications, escaped, detailVars,
                  selected, lastPicked, staleApplied, staleChanged >>
  /\ UNCHANGED extVars

\* ServerTree.populate_server, called on the widget directly.  An exception
\* goes to the caller; the tree keeps what was built.
PopulateServer(server, sites) ==
  /\ Running
  /\ populated < MaxPopulate
  /\ populated' = populated + 1
  /\ tree' = populate_server(tree, server, sites).root
  /\ treeGen' = treeGen + 1
  /\ lastCall' = [ op |-> "populate_server", server |-> server,
                   sites |-> sites ]
  /\ UNCHANGED << loadVars, sitesLoads, notifications, escaped, detailVars,
                  selected, lastPicked, staleApplied, staleChanged >>
  /\ UNCHANGED extVars

\* The Sites groups of the tree.
SitesGroupPaths ==
  { path \in Paths(tree) :
      /\ NodeAt(tree, path).data # NoData
      /\ NodeAt(tree, path).data.node_type = "SITES_GROUP" }

\* ServerTree.add_sites_to_node, called on the widget directly with a Sites
\* group of the tree.
AddSitesToNode(path, sites) ==
  /\ Running
  /\ populated < MaxPopulate
  /\ path \in SitesGroupPaths
  /\ populated' = populated + 1
  /\ tree' = ReplaceAt(tree, path,
                       add_sites_to_node(NodeAt(tree, path), sites).node)
  /\ lastCall' = [ op |-> "add_sites_to_node", path |-> path,
                   sites |-> sites ]
  /\ UNCHANGED << treeGen, loadVars, sitesLoads, notifications, escaped,
                  detailVars, selected, lastPicked, staleApplied,
                  staleChanged >>
  /\ UNCHANGED extVars

\* Variant: SITES_GROUP is missing from the tuple of skipped node types.
ShowsPanelForSitesGroup(node_data) ==
  /\ node_data # NoData
  /\ node_data.node_type \notin { "SERVER_ROOT", "SITE_ROOT" }

\* on_tree_node_selected, up to the call of show_panel.
ShowsPanel(node_data) ==
  /\ node_data # NoData
  /\ node_data.node_type \notin { "SERVER_ROOT", "SITE_ROOT", "SITES_GROUP" }

OnTreeNodeSelected(path) ==
  /\ Running
  /\ PumpIdle
  /\ path \in Paths(tree)
  /\ LET node_data == NodeAt(tree, path).data
     IN /\ selected' = node_data
        /\ IF ShowsPanel(node_data)
             THEN /\ Len(panels) < MaxPanels
                  /\ showPc' = "remove_current"
                  /\ showArg' = node_data
             ELSE UNCHANGED << showPc, showArg >>
  /\ UNCHANGED << treeVars, loadVars, sitesLoads, notifications, escaped,
                  mounted, _current_panel, panels, lastPicked, populated,
                  staleApplied, staleChanged, lastCall >>
  /\ UNCHANGED extVars

\* ----------------------------------------------------------- DetailPanel
\* Variant: the current panel is forgotten but not removed.
ShowForgetsCurrent ==
  /\ Running
  /\ showPc = "remove_current"
  /\ _current_panel' = NoneInt
  /\ showPc' = "remove_placeholder"
  /\ UNCHANGED << treeVars, loadVars, sitesLoads, notifications, escaped,
                  mounted, panels, showArg, ghostVars >>
  /\ UNCHANGED extVars

\* show_panel: await self._current_panel.remove(), when there is one.
ShowRemoveCurrent ==
  /\ Running
  /\ showPc = "remove_current"
  /\ IF _current_panel # NoneInt
       THEN /\ mounted' = mounted \ { _current_panel }
            /\ _current_panel' = NoneInt
       ELSE UNCHANGED << mounted, _current_panel >>
  /\ showPc' = "remove_placeholder"
  /\ UNCHANGED << treeVars, loadVars, sitesLoads, notifications, escaped,
                  panels, showArg,  ghostVars >>
  /\ UNCHANGED extVars

\* show_panel: remove every widget with id "placeholder".
ShowRemovePlaceholder ==
  /\ Running
  /\ showPc = "remove_placeholder"
  /\ mounted' = mounted \ { Placeholder }
  /\ showPc' = "mount"
  /\ UNCHANGED << treeVars, loadVars, sitesLoads, notifications, escaped,
                  _current_panel, panels, showArg,  ghostVars >>
  /\ UNCHANGED extVars

\* show_panel: build the fallback or the panel, mount it and make it
\* current.  A mounted panel starts its load_data worker (on_mount).
NewComponent(node_data) ==
  LET cls == _get_panel_class(node_data.node_type)
  IN [ class |-> IF cls = None THEN "Static" ELSE cls,
       node_data |-> node_data,
       content |-> IF cls = None THEN "No panel for " \o node_data.node_type
                   ELSE "Loading",
       writer |-> 0,
       fetch |-> IF cls = None THEN "none" ELSE "awaiting",
       late |-> FALSE ]

ShowMount ==
  /\ Running
  /\ showPc = "mount"
  /\ panels' = Append(panels, NewComponent(showArg))
  /\ mounted' = mounted \cup { Len(panels) + 1 }
  /\ _current_panel' = Len(panels) + 1
  /\ showPc' = "idle"
  /\ UNCHANGED << treeVars, loadVars, sitesLoads, notifications, escaped,
                  showArg,  ghostVars >>
  /\ UNCHANGED extVars

\* ---------------------------------------------------------------- panels
\* The panels whose load_data reports an error in their own Static; the
\* others (the table panels) call self.notify.
TextPanels ==
  { "ServerInfoPanel", "SiteInfoPanel", "DeploymentScriptPanel",
    "EnvironmentPanel", "GitPanel", "LogsPanel" }

\* Variant: the widget is looked up from the screen, which finds the one of
\* the component that is mounted now.
QueryTargetOnScreen(p) == IF _current_panel # NoneInt THEN _current_panel ELSE p

\* The component whose widgets load_data of component p updates:
\* self.query_one searches the descendants of self.
QueryTarget(p) == p

\* load_data of component p: the awaited call returns or raises; every
\* panel catches Exception.  The worker belongs to the panel, not to the
\* DetailPanel: it may finish after the panel has been removed, or be
\* cancelled with it (CancelledError passes the except clause).
LoadData(p, outcome) ==
  /\ Running
  /\ p \in DOMAIN panels
  /\ panels[p].fetch = "awaiting"
  /\ outcome = "cancelled" => p \notin mounted
  /\ LET t == QueryTarget(p)
         done == [ panels EXCEPT ![p].fetch = "done",
                                 ![p].late = p \notin mounted ]
     IN CASE outcome = "cancelled" ->
               /\ panels' = [ panels EXCEPT ![p].fetch = "cancelled" ]
               /\ UNCHANGED notifications
          [] outcome = "data" ->
               /\ panels' = [ done EXCEPT ![t].content = "Data", ![t].writer = p ]
               /\ UNCHANGED notifications
          [] OTHER ->
               IF panels[p].class \in TextPanels
                 THEN /\ panels' = [ done EXCEPT ![t].content = "Error",
                                                 ![t].writer = p ]
                      /\ UNCHANGED notifications
                 ELSE /\ panels' = done
                      /\ notifications' = notifications + 1
  /\ UNCHANGED << treeVars, loadVars, sitesLoads, escaped, mounted,
                  _current_panel, showPc, showArg,  ghostVars >>
  /\ UNCHANGED extVars

\* ------------------------------------------------------------------- app
\* PhorgeApp.ssh_user and server_users as configured: the default user, with
\* or without an entry for server 1.
Forge == << "f", "o", "r", "g", "e" >>
Deploy == << "d", "e", "p", "l", "o", "y" >>

AppConfigs ==
  { [ ssh_user |-> Forge, server_users |-> [ id \in { } |-> Forge ] ],
    [ ssh_user |-> Forge, server_users |-> [ id \in { 1 } |-> Deploy ] ] }

\* PhorgeApp.get_ssh_user
get_ssh_user(app, server_id) ==
  IF server_id \in DOMAIN app.server_users
    THEN app.server_users[server_id]
    ELSE app.ssh_user

\* bool(ip) of an optional ip address
TruthyIp(ip) == ip # None /\ ip # ""

\* PhorgeApp._resolve_server_info, the loop over the ancestors: the data of
\* the nearest ancestor that has an ip, NoData when the root is passed.
RECURSIVE NearestWithIp(_, _)
NearestWithIp(root, path) ==
  IF path = << >>
    THEN NoData
    ELSE LET parent == SubSeq(path, 1, Len(path) - 1)
             data == NodeAt(root, parent).data
         IN IF data # NoData /\ TruthyIp(data.server_ip)
              THEN data
              ELSE NearestWithIp(root, parent)

\* Variant: the ip is taken from the ancestor, the port from the node.
_resolve_server_infoOwnPort(root, path) ==
  LET data == NodeAt(root, path).data
  IN IF data = NoData
       THEN [ result |-> "No server selected" ]
       ELSE LET from == IF TruthyIp(data.server_ip) THEN data
                        ELSE NearestWithIp(root, path)
            IN IF from = NoData
                 THEN [ result |-> "Could not determine server IP" ]
                 ELSE [ result |-> "ok", server_id |-> from.server_id,
                        ip |-> from.server_ip, port |-> data.ssh_port ]

\* PhorgeApp._resolve_server_info for the cursor node at path: server id,
\* ip and port (the user and the site directory are left out).
_resolve_server_info(root, path) ==
  LET data == NodeAt(root, path).data
  IN IF data = NoData
       THEN [ result |-> "No server selected" ]
       ELSE LET from == IF TruthyIp(data.server_ip) THEN data
                        ELSE NearestWithIp(root, path)
            IN IF from = NoData
                 THEN [ result |-> "Could not determine server IP" ]
                 ELSE [ result |-> "ok", server_id |-> from.server_id,
                        ip |-> from.server_ip, port |-> from.ssh_port ]

\* ------------------------------------------------ _derive_site_directory
\* ServerTree._derive_site_directory called on a site record.
DeriveSiteDirectory(site) ==
  /\ lastCall' = [ op |-> "_derive_site_directory", site |-> site,
                   result |-> _derive_site_directory(site) ]
  /\ UNCHANGED << treeVars, loadVars, sitesLoads, notifications, escaped,
                  detailVars, selected, lastPicked, populated, staleApplied,
                  staleChanged >>
  /\ UNCHANGED extVars

\* ----------------------------------------------------------- ForgeClient
\* ForgeClient._request (get, post, put, delete) answered with response:
\* the client is taken from _get_client, _handle_errors sees the response.
Request(response) ==
  /\ LET g == _get_client(_client, clientsMade)
     IN /\ g.made <= MaxClients
        /\ _client' = g.client
        /\ clientsMade' = g.made
        /\ lastClientCall' = [ op |-> "request", client |-> g.client.id,
                               response |-> response,
                               error |-> _handle_errors(response) ]
  /\ UNCHANGED << screenVars, acloses, parseVars, configVars, dbVars,
                  envVars >>

\* ForgeClient.close
Close ==
  /\ IF _client # NoClient /\ ~_client.is_closed
       THEN /\ _client' = [ _client EXCEPT !.is_closed = TRUE ]
            /\ acloses' = acloses + 1
       ELSE UNCHANGED << _client, acloses >>
  /\ lastClientCall' = [ op |-> "close", client |-> _client.id ]
  /\ UNCHANGED << screenVars, clientsMade, parseVars, configVars, dbVars,
                  envVars >>

\* ------------------------------------------------------------ env_parser
\* parse_env called with content.
ParseEnv(content) ==
  /\ envCall' = [ content |-> content, result |-> parse_env(content) ]
  /\ UNCHANGED << screenVars, clientVars, configVars, dbVars, envVars >>

\* ---------------------------------------------------------------- config
\* save_config(config)
SaveConfig(config) ==
  /\ configFile' = save_config(config)
  /\ savedConfig' = config
  /\ UNCHANGED << screenVars, clientVars, parseVars, lastLoad, dbVars,
                  envVars >>

\* The user edits or removes the file.
WriteConfigFile(file) ==
  /\ configFile' = file
  /\ savedConfig' = NoConfig
  /\ UNCHANGED << screenVars, clientVars, parseVars, lastLoad, dbVars,
                  envVars >>

\* load_config()
LoadConfig ==
  /\ lastLoad' = [ file |-> configFile, saved |-> savedConfig,
                   config |-> load_config(configFile) ]
  /\ UNCHANGED << screenVars, clientVars, parseVars, configFile,
                  savedConfig, dbVars, envVars >>

\* -------------------------------------------------------- DatabasesPanel
\* The mutating actions of the panel, all @work in the default group.
DbActions == { "create", "delete", "sync" }

\* The id the server gives a created database.
NewDb == 2

\* A worker of the panel: what it runs, its argument (the row of a
\* delete), where it is, what it awaits, what the server answered and
\* fetched, and what it has notified and started.
DbWorker(kind, arg) ==
  [ kind |-> kind, arg |-> arg, pc |-> "created", at |-> "none",
    api |-> "none", fetched |-> { }, notice |-> "none", reloaded |-> FALSE ]

\* run_worker in the default group of the panel; exclusive cancels every
\* worker of that group first.
StartDbWorker(workers, kind, arg, exclusive) ==
  Append(IF exclusive THEN CancelGroup(workers) ELSE workers,
         DbWorker(kind, arg))

\* exit_on_error: an exception that leaves a worker ends the app.
DbRunning == \A w \in DOMAIN dbWorkers : dbWorkers[w].pc # "failed"

\* on_mount and on_button_pressed: Refresh calls load_data
\* (@work(exclusive=True)), Sync and Create call their @work methods.
OnDbButtonPressed(button) ==
  /\ DbRunning
  /\ Len(dbWorkers) < MaxDbWorkers
  /\ dbWorkers' =
       CASE button = "btn-refresh" -> StartDbWorker(dbWorkers, "load", 0, TRUE)
         [] button = "btn-sync" -> StartDbWorker(dbWorkers, "sync", 0, FALSE)
         [] button = "btn-create" -> StartDbWorker(dbWorkers, "create", 0, FALSE)
  /\ UNCHANGED << screenVars, clientVars, parseVars, configVars, dbRemote,
                  dbTable, envVars >>

\* on_data_table_row_selected: a row of the table starts the delete worker.
OnDbRowSelected(db_id) ==
  /\ DbRunning
  /\ Len(dbWorkers) < MaxDbWorkers
  /\ db_id \in dbTable.rows
  /\ dbWorkers' = StartDbWorker(dbWorkers, "delete", db_id, FALSE)
  /\ UNCHANGED << screenVars, clientVars, parseVars, configVars, dbRemote,
                  dbTable, envVars >>

\* A worker runs up to its first await: load_data sets table.loading and
\* awaits api.list, _sync_databases awaits api.sync, the two others await
\* their modal.
DbWorkerBegin(w) ==
  /\ DbRunning
  /\ dbWorkers[w].pc = "created"
  /\ dbWorkers' =
       [ dbWorkers EXCEPT
           ![w].pc = "awaiting",
           ![w].at = IF dbWorkers[w].kind \in { "create", "delete" }
                       THEN "modal" ELSE "api" ]
  /\ dbTable' = IF dbWorkers[w].kind = "load"
                  THEN [ dbTable EXCEPT !.loading = TRUE ] ELSE dbTable
  /\ UNCHANGED << screenVars, clientVars, parseVars, configVars, dbRemote,
                  envVars >>

\* push_screen_wait returns: a name or a confirmation sends the API call,
\* an empty answer ends the worker.
DbModalAnswered(w, accepted) ==
  /\ DbRunning
  /\ dbWorkers[w].pc = "awaiting"
  /\ dbWorkers[w].at = "modal"
  /\ dbWorkers' = IF accepted
                    THEN [ dbWorkers EXCEPT ![w].at = "api" ]
                    ELSE [ dbWorkers EXCEPT ![w].pc = "done" ]
  /\ UNCHANGED << screenVars, clientVars, parseVars, configVars, dbRemote,
                  dbTable, envVars >>

\* The server answers the call a worker has sent, whether or not the
\* worker has been cancelled since: the call is done, is rejected with 422
\* (create and delete), or fails otherwise.
DbApiAnswered(w, answer) ==
  /\ DbRunning
  /\ dbWorkers[w].pc \in { "awaiting", "cancel_pending" }
  /\ dbWorkers[w].at = "api"
  /\ dbWorkers[w].api = "none"
  /\ answer = "ForgeValidationError" => dbWorkers[w].kind \in { "create", "delete" }
  /\ dbWorkers' = [ dbWorkers EXCEPT ![w].api = answer,
                                     ![w].fetched = IF dbWorkers[w].kind = "load" /\ answer = "ok"
                                                     THEN dbRemote ELSE { } ]
  /\ dbRemote' =
       IF answer # "ok" THEN dbRemote
       ELSE CASE dbWorkers[w].kind = "create" -> dbRemote \cup { NewDb }
              [] dbWorkers[w].kind = "delete" -> dbRemote \ { dbWorkers[w].arg }
              [] OTHER -> dbRemote
  /\ UNCHANGED << screenVars, clientVars, parseVars, configVars, dbTable,
                  envVars >>

\* load_data after its await: the table is rebuilt from the list, or the
\* error is notified (except Exception); finally table.loading = False.
LoadDataResumed(workers, w) ==
  [ workers EXCEPT
      ![w].pc = "done",
      ![w].notice = IF workers[w].api # "ok" THEN "Error"
                    ELSE IF workers[w].fetched = { } THEN "No databases found"
                    ELSE "none" ]

\* _sync_databases, _create_database and _confirm_delete_database after
\* the await of their API call: the success is notified and load_data is
\* called; an exception of the call is not caught and leaves the worker.
ActionResumed(workers, w) ==
  IF workers[w].api = "ok"
    THEN StartDbWorker([ workers EXCEPT ![w].pc = "done",
                                        ![w].notice = "success",
                                        ![w].reloaded = TRUE ],
                       "load", 0, TRUE)
    ELSE [ workers EXCEPT ![w].pc = "failed" ]

\* A worker that has not been cancelled goes on after its API call.
DbResume(w) ==
  /\ DbRunning
  /\ dbWorkers[w].pc = "awaiting"
  /\ dbWorkers[w].at = "api"
  /\ dbWorkers[w].api # "none"
  /\ IF dbWorkers[w].kind = "load"
       THEN /\ dbWorkers' = LoadDataResumed(dbWorkers, w)
            /\ dbTable' = [ rows |-> IF dbWorkers[w].api = "ok"
                                       THEN dbWorkers[w].fetched
                                       ELSE dbTable.rows,
                            loading |-> FALSE ]
       ELSE /\ dbWorkers[w].api = "ok" => Len(dbWorkers) < MaxDbWorkers
            /\ dbWorkers' = ActionResumed(dbWorkers, w)
            /\ UNCHANGED dbTable
  /\ UNCHANGED << screenVars, clientVars, parseVars, configVars, dbRemote,
                  envVars >>

\* A cancelled worker gets CancelledError at its await; the finally clause
\* of load_data still sets table.loading = False.
DbCancelled(w) ==
  /\ DbRunning
  /\ dbWorkers[w].pc = "cancel_pending"
  /\ dbWorkers' = [ dbWorkers EXCEPT ![w].pc = "cancelled" ]
  /\ dbTable' = IF dbWorkers[w].kind = "load"
                  THEN [ dbTable EXCEPT !.loading = FALSE ] ELSE dbTable
  /\ UNCHANGED << screenVars, clientVars, parseVars, configVars, dbRemote,
                  envVars >>

\* ------------------------------------------------------ EnvironmentPanel
\* What the user leaves in the temp file when the editor has changed it.
EnvV2 == "v2"

\* A worker of the panel: load_data or _edit_in_editor, where it is, what
\* it awaits, what the server answered and fetched, what it wrote to the
\* temp file and what the editor left there.
EnvWorker(kind) ==
  [ kind |-> kind, pc |-> "created", at |-> "none", api |-> "none",
    fetched |-> "none", wrote |-> "none", new_content |-> "none" ]

\* exit_on_error: an exception that leaves a worker ends the app.
EnvRunning == \A w \in DOMAIN envWorkers : envWorkers[w].pc # "failed"

\* on_mount and on_button_pressed: Refresh calls load_data
\* (@work(exclusive=True)), Open in Editor calls _edit_in_editor (@work).
OnEnvButtonPressed(button) ==
  /\ EnvRunning
  /\ Len(envWorkers) < MaxEnvWorkers
  /\ envWorkers' =
       IF button = "btn-refresh"
         THEN Append(CancelGroup(envWorkers), EnvWorker("load"))
         ELSE Append(envWorkers, EnvWorker("edit"))
  /\ UNCHANGED << screenVars, clientVars, parseVars, configVars, dbVars,
                  envRemote, envPanel >>

\* A worker runs up to its first await: load_data awaits api.get;
\* _edit_in_editor awaits _data_loaded.wait(), which suspends it only
\* while the event is not set.
EnvWorkerBegin(w) ==
  /\ EnvRunning
  /\ envWorkers[w].pc = "created"
  /\ envWorkers[w].kind = "edit" => ~envPanel._data_loaded
  /\ envWorkers' =
       [ envWorkers EXCEPT
           ![w].pc = "awaiting",
           ![w].at = IF envWorkers[w].kind = "load" THEN "api" ELSE "event" ]
  /\ UNCHANGED << screenVars, clientVars, parseVars, configVars, dbVars,
                  envRemote, envPanel >>

\* _edit_in_editor once the event is set: _env_content is written to the
\* temp file and the editor runs (subprocess.run holds the event loop);
\* a changed file leads to the confirmation modal, an unchanged one to the
\* finally clause.
EditProceeds(w, new_content) ==
  /\ EnvRunning
  /\ envWorkers[w].kind = "edit"
  /\ \/ envWorkers[w].pc = "created"
     \/ envWorkers[w].pc = "awaiting" /\ envWorkers[w].at = "event"
  /\ envPanel._data_loaded
  /\ envWorkers' =
       IF new_content = envPanel._env_content
         THEN [ envWorkers EXCEPT ![w].pc = "done",
                                  ![w].wrote = envPanel._env_content ]
         ELSE [ envWorkers EXCEPT ![w].pc = "awaiting", ![w].at = "modal",
                                  ![w].wrote = envPanel._env_content,
                                  ![w].new_content = new_content ]
  /\ UNCHANGED << screenVars, clientVars, parseVars, configVars, dbVars,
                  envRemote, envPanel >>

\* push_screen_wait(ConfirmModal) returns: a confirmation sends the
\* update, anything else ends the worker.
EnvModalAnswered(w, confirmed) ==
  /\ EnvRunning
  /\ envWorkers[w].pc = "awaiting"
  /\ envWorkers[w].at = "modal"
  /\ envWorkers' = IF confirmed
                     THEN [ envWorkers EXCEPT ![w].at = "api" ]
                     ELSE [ envWorkers EXCEPT ![w].pc = "done" ]
  /\ UNCHANGED << screenVars, clientVars, parseVars, configVars, dbVars,
                  envRemote, envPanel >>

\* The server answers the call a worker has sent, whether or not the
\* worker has been cancelled since: api.get gives the file, api.update
\* replaces it, or the call is rejected (422 for an update) or fails.
EnvApiAnswered(w, answer) ==
  /\ EnvRunning
  /\ envWorkers[w].pc \in { "awaiting", "cancel_pending" }
  /\ envWorkers[w].at = "api"
  /\ envWorkers[w].api = "none"
  /\ answer = "ForgeValidationError" => envWorkers[w].kind = "edit"
  /\ envWorkers' =
       [ envWorkers EXCEPT
           ![w].api = answer,
           ![w].fetched = IF envWorkers[w].kind = "load" /\ answer = "ok"
                            THEN envRemote ELSE "none" ]
  /\ envRemote' = IF envWorkers[w].kind = "edit" /\ answer = "ok"
                    THEN envWorkers[w].new_content ELSE envRemote
  /\ UNCHANGED << screenVars, clientVars, parseVars, configVars, dbVars,
                  envPanel >>

\* A worker that has not been cancelled goes on after its API call.
\* load_data keeps the content and shows it, or shows the error; its
\* finally clause sets _data_loaded.  _edit_in_editor keeps and shows the
\* uploaded content; an exception of api.update leaves the worker.
EnvResume(w) ==
  /\ EnvRunning
  /\ envWorkers[w].pc = "awaiting"
  /\ envWorkers[w].at = "api"
  /\ envWorkers[w].api # "none"
  /\ IF envWorkers[w].kind = "load"
       THEN /\ envWorkers' = [ envWorkers EXCEPT ![w].pc = "done" ]
            /\ envPanel' =
                 IF envWorkers[w].api = "ok"
                   THEN [ _env_content |-> envWorkers[w].fetched,
                          _data_loaded |-> TRUE,
                          shown |-> envWorkers[w].fetched ]
                   ELSE [ envPanel EXCEPT !._data_loaded = TRUE,
                                          !.shown = "Error" ]
       ELSE IF envWorkers[w].api = "ok"
         THEN /\ envWorkers' = [ envWorkers EXCEPT ![w].pc = "done" ]
              /\ envPanel' = [ envPanel EXCEPT
                                 !._env_content = envWorkers[w].new_content,
                                 !.shown = envWorkers[w].new_content ]
         ELSE /\ envWorkers' = [ envWorkers EXCEPT ![w].pc = "failed" ]
              /\ UNCHANGED envPanel
  /\ UNCHANGED << screenVars, clientVars, parseVars, configVars, dbVars,
                  envRemote >>

\* A cancelled worker gets CancelledError at its await; the finally clause
\* of load_data sets _data_loaded all the same.
EnvCancelled(w) ==
  /\ EnvRunning
  /\ envWorkers[w].pc = "cancel_pending"
  /\ envWorkers' = [ envWorkers EXCEPT ![w].pc = "cancelled" ]
  /\ envPanel' = IF envWorkers[w].kind = "load"
                   THEN [ envPanel EXCEPT !._data_loaded = TRUE ]
                   ELSE envPanel
  /\ UNCHANGED << screenVars, clientVars, parseVars, configVars, dbVars,
                  envRemote >>

\* ------------------------------------------------------------------ spec
ServerLists ==
  { << Server(1, "web-1", "10.0.0.1", 22) >>,
    << Server(1, "web-1", "10.0.0.1", 22), Server(2, "web-2", None, 2222) >> }

\* The main screen's top-level loads (the single-server flow).
Next ==
  \/ \E server \in Servers \cup { NoServer } : OnServerSelected(server)
  \/ ActionRefresh
  \/ \E w \in DOMAIN loads : LoadBegin(w)
  \/ \E w \in DOMAIN loads :
       \E sites \in SiteLists(loads[w].server.id) : LoadFetched(w, sites)
  \/ \E w \in DOMAIN loads :
       \E err \in { ApiError, OtherError } : LoadFetchRaised(w, err)
  \/ \E w \in DOMAIN loads : LoadCancelled(w)

Spec == Init /\ [][Next]_vars

\* Lazy loading of the Sites groups of a server list, which a top-level
\* load or a new server list may replace at any time.
LazyNext ==
  \/ \E servers \in ServerLists : PopulateServers(servers)
  \/ \E path \in Paths(tree) : OnTreeNodeExpanded(path)
  \/ \E w \in DOMAIN sitesLoads :
       \E sites \in SiteLists(sitesLoads[w].server_id) : SitesFetched(w, sites)
  \/ \E w \in DOMAIN sitesLoads :
       \E err \in { ApiError, OtherError } : SitesFetchRaised(w, err)

LazySpec == Init /\ [][LazyNext]_vars

\* The nodes the user selects: among the first MaxSelectChild children of
\* their parent.
SelectablePaths ==
  { path \in Paths(tree) : \A i \in DOMAIN path : path[i] <= MaxSelectChild }

\* Node selection and the detail panel, over the trees of a server list.
DetailNext ==
  \/ \E servers \in ServerLists : PopulateServers(servers)
  \/ \E path \in SelectablePaths : OnTreeNodeSelected(path)
  \/ ShowRemoveCurrent
  \/ ShowRemovePlaceholder
  \/ ShowMount
  \/ \E p \in DOMAIN panels :
       \E outcome \in { "data", ApiError, OtherError, "cancelled" } :
         LoadData(p, outcome)

DetailSpec == Init /\ [][DetailNext]_vars

\* The server lists and site lists given to the tree's builders: up to
\* MaxServers servers in any order, and site records with and without the
\* optional server_id.
TreeServers == Servers \cup { Server(3, "db-1", "10.0.0.3", 2200) }

TreeServerLists ==
  { servers \in UNION { [ 1..n -> TreeServers ] : n \in 0..MaxServers } :
      \A i, j \in DOMAIN servers : servers[i] = servers[j] => i = j }

SitePayloadNoServer(id, name) ==
  [ id |-> id, name |-> name, directory |-> << "/", "p" >>,
    web_directory |-> << "/", "w", "/", "p" >> ]

TreeSiteLists(server_id) ==
  { << >>,
    << Site(SitePayload(10, server_id, << "a" >>)) >>,
    << Site(SitePayload(10, server_id, << "a" >>)),
       Site(SitePayload(11, server_id, << "b" >>)) >>,
    << Site(SitePayloadNoServer(12, << "c" >>)) >> }

\* The tree's builders, called in any order on one tree.
TreeNext ==
  \/ \E servers \in TreeServerLists : PopulateServers(servers)
  \/ \E server \in TreeServers :
       \E sites \in TreeSiteLists(server.id) : PopulateServer(server, sites)
  \/ \E path \in SitesGroupPaths :
       \E sites \in TreeSiteLists(NodeAt(tree, path).data.server_id) :
         AddSitesToNode(path, sites)

TreeSpec == Init /\ [][TreeNext]_vars

\* DetailPanel.show_panel called with the node data of any kind, as a host
\* of the widget may do; the handler holds the message pump as above.
CallShowPanel(node_data) ==
  /\ Running
  /\ PumpIdle
  /\ Len(panels) < MaxPanels
  /\ showPc' = "remove_current"
  /\ showArg' = node_data
  /\ UNCHANGED << treeVars, loadVars, sitesLoads, notifications, escaped,
                  mounted, _current_panel, panels, ghostVars >>
  /\ UNCHANGED extVars

\* show_panel for every NodeType member; the panels' fetches stay pending.
PanelNext ==
  \/ \E t \in NodeTypes : CallShowPanel(NodeData(t, 1))
  \/ ShowRemoveCurrent
  \/ ShowRemovePlaceholder
  \/ ShowMount

PanelSpec == Init /\ [][PanelNext]_vars

\* Requests and closes on one ForgeClient, in any order.
ClientNext ==
  \/ \E response \in Responses : Request(response)
  \/ Close

ClientSpec == Init /\ [][ClientNext]_vars

\* parse_env on every text of up to MaxEnvLen characters, each text reached
\* from the one it extends.
ParseNext ==
  \E c \in EnvChars :
    /\ Len(envCall.content) < MaxEnvLen
    /\ ParseEnv(Append(envCall.content, c))

ParseSpec == Init /\ [][ParseNext]_vars

\* The strings of a config value: every string of up to MaxConfigStr of
\* the characters that matter to the TOML writer.
ConfigChars == { "a", "\"", "\\" }

ConfigStrings == UNION { [ 1..n -> ConfigChars ] : n \in 0..MaxConfigStr }

Configs ==
  { PhorgeConfig(api_key, command, auto_expand_sites, theme, vim_keys) :
      api_key \in ConfigStrings,
      command \in { Code, << "v", "i" >> },
      auto_expand_sites \in BOOLEAN,
      theme \in { Dark, << "\\" >> },
      vim_keys \in BOOLEAN }

\* The files a user can leave: none, one that is not TOML, an empty one,
\* and ones with some of the sections and keys.
UserFiles ==
  { NoFile,
    [ exists |-> TRUE, lines |-> << [ garbage |-> "{{{" ] >> ],
    [ exists |-> TRUE,
      lines |-> << [ table |-> "forge" ], [ garbage |-> "{{{" ] >> ],
    [ exists |-> TRUE, lines |-> << >> ],
    [ exists |-> TRUE,
      lines |-> << [ table |-> "forge" ],
                   [ key |-> "api_key", literal |-> << "\"", "a", "\"" >> ] >> ],
    [ exists |-> TRUE, lines |-> << [ table |-> "forge" ] >> ],
    [ exists |-> TRUE,
      lines |-> << [ table |-> "ui" ],
                   [ key |-> "vim_keys", literal |-> << "t", "r", "u", "e" >> ],
                   [ table |-> "editor" ] >> ] }

\* Saving, loading and hand-editing the config file, in any order.
ConfigNext ==
  \/ \E config \in Configs : SaveConfig(config)
  \/ \E file \in UserFiles : WriteConfigFile(file)
  \/ LoadConfig

ConfigSpec == Init /\ [][ConfigNext]_vars

\* A mounted DatabasesPanel: its buttons, its rows and its workers.
DbNext ==
  \/ \E button \in { "btn-refresh", "btn-sync", "btn-create" } :
       OnDbButtonPressed(button)
  \/ \E db_id \in dbTable.rows : OnDbRowSelected(db_id)
  \/ \E w \in DOMAIN dbWorkers : DbWorkerBegin(w)
  \/ \E w \in DOMAIN dbWorkers : \E accepted \in BOOLEAN :
       DbModalAnswered(w, accepted)
  \/ \E w \in DOMAIN dbWorkers :
       \E answer \in { "ok", "ForgeValidationError", "ForgeAPIError" } :
         DbApiAnswered(w, answer)
  \/ \E w \in DOMAIN dbWorkers : DbResume(w)
  \/ \E w \in DOMAIN dbWorkers : DbCancelled(w)

DbSpec == Init /\ [][DbNext]_vars

\* A mounted EnvironmentPanel: its buttons, its content and its workers.
EnvNext ==
  \/ \E button \in { "btn-refresh", "btn-edit" } : OnEnvButtonPressed(button)
  \/ \E w \in DOMAIN envWorkers : EnvWorkerBegin(w)
  \/ \E w \in DOMAIN envWorkers :
       \E new_content \in { envPanel._env_content, EnvV2 } :
         EditProceeds(w, new_content)
  \/ \E w \in DOMAIN envWorkers : \E confirmed \in BOOLEAN :
       EnvModalAnswered(w, confirmed)
  \/ \E w \in DOMAIN envWorkers :
       \E answer \in { "ok", "ForgeValidationError", "ForgeAPIError" } :
         EnvApiAnswered(w, answer)
  \/ \E w \in DOMAIN envWorkers : EnvResume(w)
  \/ \E w \in DOMAIN envWorkers : EnvCancelled(w)

EnvSpec == Init /\ [][EnvNext]_vars

\* The main screen with its detail panel: the user picks servers,
\* refreshes, and selects nodes of the tree that is displayed.
SwitchNext ==
  \/ \E server \in Servers \cup { NoServer } : OnServerSelected(server)
  \/ ActionRefresh
  \/ \E w \in DOMAIN loads : LoadBegin(w)
  \/ \E w \in DOMAIN loads : LoadFetched(w, << >>)
  \/ \E w \in DOMAIN loads : LoadFetchRaised(w, ApiError)
  \/ \E w \in DOMAIN loads : LoadCancelled(w)
  \/ \E path \in SelectablePaths : OnTreeNodeSelected(path)
  \/ ShowRemoveCurrent
  \/ ShowRemovePlaceholder
  \/ ShowMount

SwitchSpec == Init /\ [][SwitchNext]_vars

\* Site records that carry both directories, as the API sends them: every
\* web directory of up to MaxDirLen characters, and public paths with and
\* without slashes.
DirChars == { "/", "w", "p" }

WebDirectories ==
  UNION { [ 1..n -> DirChars ] : n \in 0..MaxDirLen } \cup { NoneStr }

PublicPaths ==
  { NoneStr, << >>, << "/" >>, << "/", "/" >>, << "p" >>, << "/", "p" >>,
    << "p", "/" >> }

DeriveNext ==
  \E web_directory \in WebDirectories : \E directory \in PublicPaths :
    DeriveSiteDirectory([ id |-> 10, server_id |-> 1, name |-> << "a" >>,
                          directory |-> directory,
                          web_directory |-> web_directory ])

DeriveSpec == Init /\ [][DeriveNext]_vars

\* ------------------------------------------------------------ properties
Last(seq) == seq[Len(seq)]

Finished(w) == w.pc \in { "done", "cancelled" }

\* The load that most recently succeeded, if any.
OkLoads == { w \in DOMAIN loads : loads[w].result = "ok" }
LastOk == CHOOSE w \in OkLoads : \A v \in OkLoads : v <= w

ServerChildTypes == << "SERVER_INFO", "SITES_GROUP" >> \o ServerLeafItems

ShowsWholeServer(server) ==
  /\ DisplayedServer = server.id
  /\ [ i \in 1..Len(tree.children) |-> tree.children[i].data.node_type ]
       = ServerChildTypes

\* C1: no superseded top-level load calls populate_server, no lazy load of
\* a tree that has been rebuilt changes the tree, and once every load has
\* finished the tree shows the most recently requested load that succeeded.
C1_NoStaleResult ==
  /\ ~staleApplied
  /\ ~staleChanged
  /\ ( /\ \A w \in DOMAIN loads : Finished(loads[w])
       /\ OkLoads # { } )
       => ShowsWholeServer(loads[LastOk].server)

\* C2: the detail panel holds at most one component; nothing is mounted at
\* the moment a new component is mounted; and when show_panel has returned
\* the one mounted component is the one built for that call's node data.
C2_SingleComponent ==
  /\ Cardinality(mounted) <= 1
  /\ showPc = "mount" => mounted = { }
  /\ showArg = NoData => mounted = { Placeholder }
  /\ (showPc = "idle" /\ showArg # NoData) =>
       /\ mounted = { _current_panel }
       /\ _current_panel = Len(panels)
       /\ panels[_current_panel] = NewComponent(showArg)
            \/ /\ panels[_current_panel].fetch = "done"
               /\ panels[_current_panel].node_data = showArg

C2_Replaced ==
  /\ showPc = "idle"
  /\ Len(panels) = 2
  /\ mounted = { 2 }
  /\ panels[1].node_data # panels[2].node_data

\* C3: a component's content is written only by its own load_data: while
\* its fetch is unresolved it shows what it was built with, whatever the
\* fetches of replaced components do, and only the last shown is mounted.
C3_OwnFetchOnly ==
  /\ \A p \in DOMAIN panels :
       /\ panels[p].writer \in { 0, p }
       /\ panels[p].fetch = "awaiting" =>
            /\ panels[p].content = "Loading"
            /\ panels[p].writer = 0
  /\ (showPc = "idle" /\ panels # << >>) => mounted = { Len(panels) }

C3_LateFetch ==
  /\ showPc = "idle"
  /\ Len(panels) = 2
  /\ mounted = { 2 }
  /\ panels[1].late
  /\ panels[1].class = panels[2].class
  /\ panels[2].fetch = "awaiting"

\* C4: when the fetch of a lazy site load raises an API error, a
\* notification is emitted, the tree is unchanged, and the target node is
\* still an unloaded Sites group without children, so that expanding it
\* again starts a new fetch.
C4_ApiErrorLeavesUnloaded ==
  [][ \A w \in DOMAIN sitesLoads :
        ( /\ sitesLoads[w].pc = "awaiting"
          /\ sitesLoads'[w].outcome = "api_error" )
        => /\ notifications' = notifications + 1
           /\ tree' = tree
           /\ InTree(sitesLoads[w]) =>
                /\ NodeAt(tree', sitesLoads[w].path).children = << >>
                /\ StartsSitesLoad(NodeAt(tree', sitesLoads[w].path).data) ]_vars

C4_Retried ==
  /\ Len(sitesLoads) >= 2
  /\ sitesLoads[1].outcome = "api_error"
  /\ sitesLoads[2].gen = sitesLoads[1].gen
  /\ sitesLoads[2].path = sitesLoads[1].path
  /\ sitesLoads[2].pc = "awaiting"
  /\ notifications = 1

\* C5: a lazy site load whose fetch has succeeded has applied
\* add_sites_to_node to its node: the node is loaded and holds the sites.
C5_FetchedSitesAdded ==
  \A w \in DOMAIN sitesLoads :
    (sitesLoads[w].outcome = "fetched" /\ InTree(sitesLoads[w])) =>
      /\ NodeAt(tree, sitesLoads[w].path).data.loaded
      /\ Len(NodeAt(tree, sitesLoads[w].path).children)
           >= Len(sitesLoads[w].fetched)

\* C6: no exception raised by a Resource Client call escapes a load.
C6_NoClientErrorEscapes == escaped # "client"

\* C7: a top-level load that fails leaves the tree and the detail view
\* exactly as they were.
C7_FailedLoadKeepsTree ==
  [][ \A w \in DOMAIN loads :
        (loads[w].result = "none" /\ loads'[w].result = "failed")
        => /\ tree' = tree
           /\ UNCHANGED detailVars ]_vars

\* C8: the loading indicator is on while a top-level load that has not
\* been superseded is awaiting its fetch, and it is off when every load has
\* ended.
C8_LoadingWhileInFlight ==
  /\ (\E w \in DOMAIN loads : loads[w].pc = "awaiting") => loading
  /\ loading =>
       \E w \in DOMAIN loads :
         loads[w].pc \in { "created", "awaiting", "cancel_pending" }

\* C9 (as stated): every load that refresh starts is for the server the
\* tree displays at that moment.
C9_RefreshLoadsDisplayed ==
  \A w \in DOMAIN loads :
    loads[w].by = "refresh" => loads[w].server.id = loads[w].displayed

\* C9 (amended): every load that refresh starts is for the server most
\* recently selected in the picker, and refresh starts none before a
\* server has been selected.
C9_RefreshLoadsPicked ==
  /\ \A w \in DOMAIN loads :
       loads[w].by = "refresh" =>
         /\ loads[w].picked # NoneInt
         /\ loads[w].server.id = loads[w].picked
  /\ lastPicked = NoneInt => loads = << >>

C9_RefreshedAfterSwitch ==
  /\ Len(loads) = 3
  /\ loads[3].by = "refresh"
  /\ loads[1].server.id # loads[3].server.id
  /\ loads[3].displayed # loads[3].server.id
  /\ loads[3].displayed # NoneInt

\* C10: a node-selected event for a node without data or of a group kind
\* leaves the detail panel alone; for any other node it calls show_panel
\* with the node's data.
C10_GroupKindsSkipped ==
  [][ (selected' # selected \/ (showPc = "idle" /\ showPc' # "idle")) =>
        IF selected' = NoData \/ selected'.node_type \in GroupTypes
          THEN UNCHANGED detailVars
          ELSE /\ showPc' = "remove_current"
               /\ showArg' = selected'
               /\ UNCHANGED << mounted, _current_panel, panels >> ]_vars

C10_SkippedWithPanel ==
  /\ selected # NoData
  /\ selected.node_type \in GroupTypes
  /\ showPc = "idle"
  /\ _current_panel # NoneInt
  /\ mounted = { _current_panel }

\* The eight kinds under a server node, in order.
EightKinds ==
  << "SERVER_INFO", "SITES_GROUP", "SSH_KEYS", "DAEMONS", "FIREWALL_RULES",
     "SCHEDULED_JOBS", "DATABASES_SERVER", "DATABASE_USERS" >>

KindsOf(children) == [ i \in 1..Len(children) |-> children[i].data.node_type ]

\* C11: after populate_servers(S) the root has one child per server of S,
\* in input order, tagged SERVER_ROOT with that server's id, ip (None when
\* missing) and ssh port, and each has the eight kinds in order, the Sites
\* group unloaded and without children.
C11_ServerListStructure ==
  lastCall.op = "populate_servers" =>
    /\ Len(tree.children) = Len(lastCall.servers)
    /\ \A i \in 1..Len(tree.children) :
         LET node == tree.children[i]
             server == lastCall.servers[i]
         IN /\ node.data.node_type = "SERVER_ROOT"
            /\ node.data.server_id = server.id
            /\ node.data.server_ip = server.ip_address
            /\ node.data.ssh_port = server.ssh_port
            /\ KindsOf(node.children) = EightKinds
            /\ ~node.children[2].data.loaded
            /\ node.children[2].children = << >>

C11_TwoServersOneWithoutIp ==
  /\ lastCall.op = "populate_servers"
  /\ Len(tree.children) = 2
  /\ tree.children[1].data.server_ip = None
  /\ tree.children[2].data.server_ip # None
  /\ tree.children[1].data.ssh_port = 2222

\* The twelve kinds under a site node, in order.
TwelveKinds ==
  << "SITE_INFO", "DEPLOYMENTS", "DEPLOYMENT_SCRIPT", "LOGS", "ENVIRONMENT",
     "WORKERS", "BACKUPS", "DOMAINS", "DATABASES_SITE", "SSL_CERTIFICATES",
     "COMMANDS", "GIT_REPOSITORY" >>

\* A direct call of add_sites_to_node is the step from this state to the next.
AddsSites ==
  /\ populated' # populated
  /\ lastCall'.op = "add_sites_to_node"

\* C12: add_sites_to_node(sites_node, T) sets the node's loaded flag and
\* appends one SITE_ROOT child per site of T, in input order, each with the
\* twelve kinds in order.
C12_SitesAdded ==
  [][ AddsSites =>
        LET before == NodeAt(tree, lastCall'.path)
            after == NodeAt(tree', lastCall'.path)
            T == lastCall'.sites
        IN /\ after.data.loaded
           /\ Len(after.children) = Len(before.children) + Len(T)
           /\ \A i \in 1..Len(T) :
                LET site_node == after.children[Len(before.children) + i]
                IN /\ site_node.data.node_type = "SITE_ROOT"
                   /\ site_node.data.site_id = T[i].id
                   /\ KindsOf(site_node.children) = TwelveKinds ]_vars

\* The tree of a widget on which populate_servers(servers) is called once.
PopulatedOnce(servers) == populate_servers(TreeNode(NoData), servers)

\* C13: the tree after populate_servers(S) is the tree that one call of
\* populate_servers(S) on a new widget gives, whatever the tree held before
\* (so that calling it twice gives the same tree as calling it once).
C13_DependsOnlyOnInput ==
  lastCall.op = "populate_servers" => tree = PopulatedOnce(lastCall.servers)

\* C14: after populate_server(server, sites) the root is the server node
\* with the eight kinds in order, its Sites group is loaded and holds one
\* SITE_ROOT per site, and the root and the Sites group are expanded.
C14_SingleServerStructure ==
  lastCall.op = "populate_server" =>
    /\ tree.data.node_type = "SERVER_ROOT"
    /\ tree.data.server_id = lastCall.server.id
    /\ KindsOf(tree.children) = EightKinds
    /\ tree.expanded
    /\ LET sites_node == tree.children[2]
       IN /\ sites_node.data.loaded
          /\ sites_node.expanded
          /\ Len(sites_node.children) = Len(lastCall.sites)
          /\ \A i \in 1..Len(sites_node.children) :
               /\ sites_node.children[i].data.node_type = "SITE_ROOT"
               /\ sites_node.children[i].data.site_id = lastCall.sites[i].id

\* The node at path and its ancestors, as paths.
SelfAndAncestors(path) == { SubSeq(path, 1, n) : n \in 0..Len(path) }

\* The server nodes among them.
ServersAbove(path) ==
  { q \in SelfAndAncestors(path) :
      /\ NodeAt(tree, q).data # NoData
      /\ NodeAt(tree, q).data.node_type = "SERVER_ROOT" }

NearestServer(path) ==
  CHOOSE q \in ServersAbove(path) : \A r \in ServersAbove(path) : Len(r) <= Len(q)

\* C15: for every node in the subtree of a server node that has an ip, the
\* resolution gives that server's ip and ssh port; for a node with data
\* that has no ip itself and no ancestor with an ip, the resolution ends
\* with the report that the ip could not be determined.
C15_IpAndPortResolved ==
  \A path \in Paths(tree) :
    /\ ( /\ ServersAbove(path) # { }
         /\ TruthyIp(NodeAt(tree, NearestServer(path)).data.server_ip) )
       => LET server == NodeAt(tree, NearestServer(path)).data
              r == _resolve_server_info(tree, path)
          IN /\ r.result = "ok"
             /\ r.ip = server.server_ip
             /\ r.port = server.ssh_port
             /\ r.server_id = server.server_id
    /\ ( /\ NodeAt(tree, path).data # NoData
         /\ \A q \in SelfAndAncestors(path) :
              NodeAt(tree, q).data # NoData =>
                ~TruthyIp(NodeAt(tree, q).data.server_ip) )
       => _resolve_server_info(tree, path).result
            = "Could not determine server IP"

C15_LeafResolvedThroughServer ==
  /\ \E path \in Paths(tree) :
       /\ NodeAt(tree, path).data # NoData
       /\ NodeAt(tree, path).data.server_ip = None
       /\ NodeAt(tree, path).data.ssh_port = 22
       /\ _resolve_server_info(tree, path).result = "ok"
       /\ _resolve_server_info(tree, path).port = 2200
  /\ \E path \in Paths(tree) :
       /\ NodeAt(tree, path).data # NoData
       /\ _resolve_server_info(tree, path).result
            = "Could not determine server IP"

\* The node at path is a SITE_ROOT or below one.
InSiteSubtree(path) ==
  \E q \in SelfAndAncestors(path) :
    /\ NodeAt(tree, q).data # NoData
    /\ NodeAt(tree, q).data.node_type = "SITE_ROOT"

ServerLevelKinds ==
  { "SERVER_ROOT" } \cup { EightKinds[i] : i \in 1..Len(EightKinds) }

C17_SiteNodesCarryServerId ==
  [][ /\ \A path \in Paths(tree') \ { << >> } :
           NodeAt(tree', path).data.server_id # NoneInt
      /\ AddsSites =>
           LET before == NodeAt(tree, lastCall'.path)
               after == NodeAt(tree', lastCall'.path)
               T == lastCall'.sites
           IN \A i \in 1..Len(T) :
                /\ Len(after.children) >= Len(before.children) + i
                /\ LET site_node == after.children[Len(before.children) + i]
                   IN /\ site_node.data.server_id = after.data.server_id
                      /\ \A k \in 1..Len(site_node.children) :
                           site_node.children[k].data.server_id
                             = after.data.server_id ]_vars

\* C18: a Sites group is loaded only when its population has completed: in
\* the single-server tree, only when it holds a node for every site of the
\* list that populate_server was given.
C18_LoadedOnlyWhenPopulated ==
  \A path \in SitesGroupPaths :
    NodeAt(tree, path).data.loaded =>
      /\ lastCall.op = "populate_server"
      /\ Len(NodeAt(tree, path).children) = Len(lastCall.sites)

\* C19: _get_panel_class gives no class for exactly SERVER_ROOT, SITE_ROOT
\* and SITES_GROUP and one class for each of the other nineteen of the
\* twenty-two node types; a component built by show_panel for a kind
\* without class is a fallback message that names the kind, and for any
\* other kind it is the panel of that kind.
C19_PanelForEveryLeafKind ==
  /\ Cardinality(NodeTypes) = 22
  /\ \A t \in NodeTypes :
       (_get_panel_class(t) = None)
         <=> t \in { "SERVER_ROOT", "SITE_ROOT", "SITES_GROUP" }
  /\ Cardinality({ t \in NodeTypes : _get_panel_class(t) # None }) = 19
  /\ \A p \in DOMAIN panels :
       LET kind == panels[p].node_data.node_type
       IN IF kind \in { "SERVER_ROOT", "SITE_ROOT", "SITES_GROUP" }
            THEN /\ panels[p].class = "Static"
                 /\ panels[p].content = "No panel for " \o kind
            ELSE /\ panels[p].class # "Static"
                 /\ panels[p].class = _get_panel_class(kind)

C19_FallbackThenPanel ==
  /\ showPc = "idle"
  /\ Len(panels) = 2
  /\ panels[1].class = "Static"
  /\ panels[1].content = "No panel for SITE_ROOT"
  /\ panels[2].class = "LogsPanel"
  /\ mounted = { 2 }

\* The site record has no web directory.
NoWebDirectory(site) ==
  "web_directory" \notin DOMAIN site \/ ~Truthy(site.web_directory)

\* C20: the directory of every site record given to the tree is derived,
\* and for a record without web directory it is /home/<ssh_user>/<name>
\* with the SSH user configured for the site's server.
C20_DirectoryDerived ==
  lastCall.op \in { "populate_server", "add_sites_to_node" } =>
    \A i \in 1..Len(lastCall.sites) :
      LET site == lastCall.sites[i]
          r == _derive_site_directory(site)
      IN /\ ~r.raised
         /\ NoWebDirectory(site) =>
              \A app \in AppConfigs :
                r.value = << "/", "h", "o", "m", "e", "/" >>
                            \o get_ssh_user(app, site.server_id)
                            \o << "/" >> \o site.name

\* The error classes of phorge.api.exceptions besides the generic one.
TypedStatuses == { 401, 404, 422, 429 }

\* C22: _handle_errors raises nothing for a success status,
\* ForgeAuthenticationError for 401, ForgeNotFoundError for 404,
\* ForgeValidationError with the response details for 422 (the raw text
\* wrapped when the body is not JSON), ForgeRateLimitError for 429, and
\* for every other status a ForgeAPIError whose message holds the status.
C22_TypedErrors ==
  lastClientCall.op = "request" =>
    LET response == lastClientCall.response
        s == response.status_code
        e == lastClientCall.error
    IN /\ (200 <= s /\ s <= 299) <=> e.raised = "none"
       /\ s = 401 <=> e.raised = "ForgeAuthenticationError"
       /\ s = 404 <=> e.raised = "ForgeNotFoundError"
       /\ s = 422 <=> e.raised = "ForgeValidationError"
       /\ s = 429 <=> e.raised = "ForgeRateLimitError"
       /\ (~(200 <= s /\ s <= 299) /\ s \notin TypedStatuses)
            <=> e.raised = "ForgeAPIError"
       /\ e.raised = "ForgeValidationError" =>
            e.details = IF response.json.kind = "invalid"
                          THEN [ kind |-> "dict", error |-> response.text ]
                          ELSE response.json
       /\ e.raised = "ForgeAPIError" =>
            \E i \in DOMAIN e.message : e.message[i] = ToString(s)

\* A request has been answered with 429.
C22_RateLimitRaised ==
  /\ lastClientCall.op = "request"
  /\ lastClientCall.response.status_code = 429
  /\ lastClientCall.error.raised = "ForgeRateLimitError"
  /\ clientsMade = 1

\* C23: there is no httpx client before the first request; requests with
\* no close in between use the same client; close without an open client
\* calls no aclose; a request after close makes a fresh open client.
C23_ClientLifecycle ==
  [][ /\ clientsMade = 0 <=> _client = NoClient
      /\ (lastClientCall.op = "none" /\ lastClientCall'.op = "close")
           => _client' = NoClient
      /\ (lastClientCall.op = "request" /\ lastClientCall'.op = "request")
           => /\ lastClientCall'.client = lastClientCall.client
              /\ _client' = _client
      /\ (lastClientCall'.op = "close"
            /\ (_client = NoClient \/ _client.is_closed))
           => acloses' = acloses /\ _client' = _client
      /\ (lastClientCall'.op = "close" /\ _client # NoClient
            /\ ~_client.is_closed)
           => acloses' = acloses + 1 /\ _client'.is_closed
      /\ (lastClientCall.op = "close" /\ lastClientCall'.op = "request")
           => /\ _client'.id > clientsMade
              /\ ~_client'.is_closed
              /\ lastClientCall'.client = _client'.id ]_vars

\* A request, a close, and a request again.
C23_RequestAfterClose ==
  /\ lastClientCall.op = "request"
  /\ clientsMade = 2
  /\ acloses = 1
  /\ ~_client.is_closed

\* The lines of a text, as pairs of the positions that delimit them.
LineBreaks(text) ==
  { 0, Len(text) + 1 } \cup { i \in 1..Len(text) : text[i] = "\n" }

LineSpans(text) ==
  { span \in LineBreaks(text) \X LineBreaks(text) :
      /\ span[1] < span[2]
      /\ \A b \in LineBreaks(text) : ~(span[1] < b /\ b < span[2]) }

LineOf(text, span) == strip(SubSeq(text, span[1] + 1, span[2] - 1))

\* The lines that contribute a pair: not blank, no comment, with an =.
Contributes(line) ==
  /\ line # << >>
  /\ line[1] # "#"
  /\ \E i \in 1..Len(line) : line[i] = "="

FirstEquals(line) ==
  CHOOSE i \in 1..Len(line) :
    line[i] = "=" /\ \A j \in 1..(i - 1) : line[j] # "="

KeyOf(line) == strip(SubSeq(line, 1, FirstEquals(line) - 1))

ValueOf(line) ==
  LET v == strip(SubSeq(line, FirstEquals(line) + 1, Len(line)))
  IN IF Len(v) >= 2 /\ v[1] = v[Len(v)] /\ (v[1] = "\"" \/ v[1] = "'")
       THEN SubSeq(v, 2, Len(v) - 1)
       ELSE v

\* C24: parse_env gives the mapping built line by line (a line is taken
\* without its surrounding blanks): blank lines, comment lines and lines
\* without = give nothing, every other line gives the trimmed text before
\* its first = as key and the trimmed text after it as value, without one
\* pair of surrounding quotes when the value has two characters or more
\* and begins and ends with the same quote; the last line of a key wins.
C24_ParsedLineByLine ==
  "result" \in DOMAIN envCall =>
    LET text == envCall.content
        spans == { s \in LineSpans(text) : Contributes(LineOf(text, s)) }
    IN /\ DOMAIN envCall.result = { KeyOf(LineOf(text, s)) : s \in spans }
       /\ \A s \in spans :
            (\A t \in spans :
               KeyOf(LineOf(text, t)) = KeyOf(LineOf(text, s)) => t[1] <= s[1])
              => envCall.result[KeyOf(LineOf(text, s))] = ValueOf(LineOf(text, s))

\* A later line has overridden the value of an earlier one.
C24_LaterLineOverrides ==
  /\ "result" \in DOMAIN envCall
  /\ envCall.content = << "=", "a", "\n", "=" >>
  /\ envCall.result[<< >>] = << >>

\* The file holds a value for key of section: a key line after the header
\* of the section and before the next header.
HoldsKey(file, section, key) ==
  /\ file.exists
  /\ \E i, j \in DOMAIN file.lines :
       /\ i < j
       /\ "table" \in DOMAIN file.lines[i]
       /\ file.lines[i].table = section
       /\ "key" \in DOMAIN file.lines[j]
       /\ file.lines[j].key = key
       /\ \A m \in (i + 1)..(j - 1) : "table" \notin DOMAIN file.lines[m]

NotToml(file) ==
  file.exists /\ \E i \in DOMAIN file.lines : "garbage" \in DOMAIN file.lines[i]

\* C25: load_config gives the defaults when the file is missing or is not
\* TOML, gives the default of every key the file does not hold, and after
\* save_config(c) gives a configuration equal to c.
C25_LoadAfterSave ==
  "config" \in DOMAIN lastLoad =>
    /\ (~lastLoad.file.exists \/ NotToml(lastLoad.file))
         => lastLoad.config = DefaultConfig
    /\ \A section \in DOMAIN DefaultConfig :
         \A key \in DOMAIN DefaultConfig[section] :
           ~HoldsKey(lastLoad.file, section, key)
             => lastLoad.config[section][key] = DefaultConfig[section][key]
    /\ lastLoad.saved # NoConfig => lastLoad.config = lastLoad.saved

\* A configuration with a backslash in its theme has been saved and loaded.
C25_SavedThenLoaded ==
  /\ "config" \in DOMAIN lastLoad
  /\ lastLoad.saved # NoConfig
  /\ lastLoad.saved.ui.theme = << "\\" >>
  /\ lastLoad.saved # DefaultConfig
  /\ lastLoad.file = configFile

\* The site ids of the SITE_ROOT children of a node, in order.
SiteIdsOf(node) == [ i \in 1..Len(node.children) |-> node.children[i].data.site_id ]

\* C26: whatever the order of expansions and fetch completions, at most
\* one fetch of a Sites group has been applied to it, and the group of the
\* displayed tree then holds each fetched site once, in order.
C26_SitesAddedOnce ==
  \A w \in DOMAIN sitesLoads :
    sitesLoads[w].outcome = "fetched" =>
      /\ \A v \in DOMAIN sitesLoads :
           (/\ v # w
            /\ sitesLoads[v].gen = sitesLoads[w].gen
            /\ sitesLoads[v].path = sitesLoads[w].path)
             => sitesLoads[v].outcome # "fetched"
      /\ InTree(sitesLoads[w]) =>
           SiteIdsOf(NodeAt(tree, sitesLoads[w].path))
             = [ i \in 1..Len(sitesLoads[w].fetched) |->
                   sitesLoads[w].fetched[i].id ]

\* C21: when the API call of a mutating action is rejected with a
\* validation error, the action surfaces the message, the error does not
\* leave the action, and the rows of the panel stay what they were.
C21_ValidationSurfaced ==
  [][ \A w \in DOMAIN dbWorkers :
        (/\ dbWorkers[w].kind \in DbActions
         /\ dbWorkers[w].api = "ForgeValidationError"
         /\ dbWorkers[w].pc = "awaiting"
         /\ dbWorkers'[w].pc \in { "done", "failed" })
          => /\ dbWorkers'[w].pc = "done"
             /\ dbWorkers'[w].notice # "none"
             /\ dbTable' = dbTable ]_vars

\* C28: load_data started on the panel does not cancel an action that is
\* awaiting its API call, and every action whose call succeeded has
\* notified its success and started the reload once it has ended.
C28_ActionsSurviveReload ==
  \A w \in DOMAIN dbWorkers :
    dbWorkers[w].kind \in DbActions =>
      /\ dbWorkers[w].at = "api"
           => dbWorkers[w].pc \notin { "cancel_pending", "cancelled" }
      /\ (dbWorkers[w].api = "ok" /\ dbWorkers[w].pc \in { "done", "cancelled" })
           => dbWorkers[w].notice = "success" /\ dbWorkers[w].reloaded

\* The load_data workers of the panel, and the one started last.
EnvLoads == { l \in DOMAIN envWorkers : envWorkers[l].kind = "load" }

LastEnvLoad == CHOOSE l \in EnvLoads : \A m \in EnvLoads : m <= l

\* C27: _edit_in_editor writes the temp file and opens the editor only
\* when the load_data started last has completed successfully and
\* _env_content is what that load fetched or what the panel has uploaded
\* since.
C27_EditsLoadedContent ==
  [][ \A w \in DOMAIN envWorkers :
        (/\ envWorkers[w].kind = "edit"
         /\ envWorkers[w].wrote = "none"
         /\ envWorkers'[w].wrote # "none")
          => /\ EnvLoads # { }
             /\ envWorkers[LastEnvLoad].pc = "done"
             /\ envWorkers[LastEnvLoad].api = "ok"
             /\ \/ envPanel._env_content = envWorkers[LastEnvLoad].fetched
                \/ \E u \in DOMAIN envWorkers :
                     /\ u > LastEnvLoad
                     /\ envWorkers[u].kind = "edit"
                     /\ envWorkers[u].pc = "done"
                     /\ envWorkers[u].api = "ok"
                     /\ envWorkers[u].new_content = envPanel._env_content ]_vars

\* The servers the displayed tree shows: its SERVER_ROOT nodes.
ServersShown ==
  { NodeAt(tree, path).data.server_id :
      path \in { p \in Paths(tree) :
                   /\ NodeAt(tree, p).data # NoData
                   /\ NodeAt(tree, p).data.node_type = "SERVER_ROOT" } }

LoadInFlight ==
  \E w \in DOMAIN loads : loads[w].pc \in { "created", "awaiting", "cancel_pending" }

\* C29: while no top-level load is in flight, every component mounted in
\* the detail panel belongs to a server that the displayed tree shows.
C29_MountedOfDisplayedServer ==
  ~LoadInFlight =>
    \A p \in mounted \ { Placeholder } :
      panels[p].node_data.server_id \in ServersShown

\* s without its last Len(suffix) characters.
WithoutSuffix(s, suffix) == SubSeq(s, 1, Len(s) - Len(suffix))

====
